---- MODULE Spec2Model ----
(***************************************************************************)
(* Model of the model-stats subsystem of llm_harness:                      *)
(*   stats/data_sources/artificial_analysis.py  (Provider-A fetch, scorer) *)
(*   stats/data_sources/models_dev.py           (Provider-B fetch)         *)
(*   stats/data_sources/matcher.py              (matcher, union, mapping)  *)
(*   stats/model_stats.py                       (selection cache)          *)
(*                                                                         *)
(* Strings are sequences of one-character strings, so that normalisation,  *)
(* tokenisation and lexicographic comparison are computed, not assumed.    *)
(* Reals are fixed-point integers (see Milli and ScoreScale).              *)
(***************************************************************************)
EXTENDS Integers, Sequences, FiniteSets, TLC

(***************************************************************************)
(* Characters and strings                                                  *)
(***************************************************************************)
UpperSeq == <<"A","B","C","D","E","F","G","H","I","J","K","L","M",
              "N","O","P","Q","R","S","T","U","V","W","X","Y","Z">>
LowerSeq == <<"a","b","c","d","e","f","g","h","i","j","k","l","m",
              "n","o","p","q","r","s","t","u","v","w","x","y","z">>
DigitSeq == <<"0","1","2","3","4","5","6","7","8","9">>

Lower == {LowerSeq[i] : i \in DOMAIN LowerSeq}
Digit == {DigitSeq[i] : i \in DOMAIN DigitSeq}

\* the sequence with the elements of f, each evaluated once
ListOf(f) == f \o <<>>

\* str.lower() on one character
ToLower(c) ==
    IF \E i \in DOMAIN UpperSeq : UpperSeq[i] = c
    THEN LowerSeq[CHOOSE i \in DOMAIN UpperSeq : UpperSeq[i] = c]
    ELSE c

\* int() of one decimal digit
DigitVal(c) == (CHOOSE i \in DOMAIN DigitSeq : DigitSeq[i] = c) - 1

\* the characters of the model in code-point order
CodePointOrder ==
    <<"\t", " ", "-", ".", "/">> \o DigitSeq \o <<":">> \o UpperSeq \o <<"_">> \o LowerSeq

CharRank(c) == CHOOSE i \in DOMAIN CodePointOrder : CodePointOrder[i] = c

\* Python's str < str on sequences of characters
RECURSIVE StrLess(_, _)
StrLess(a, b) ==
    IF b = <<>> THEN FALSE
    ELSE IF a = <<>> THEN TRUE
    ELSE IF Head(a) = Head(b) THEN StrLess(Tail(a), Tail(b))
    ELSE CharRank(Head(a)) < CharRank(Head(b))

StrGeq(a, b) == ~StrLess(a, b)

\* the characters of re's [._:\s]
SepChars == {".", "_", ":", " ", "\t"}
\* the characters of re's [a-z0-9/-]
AllowedChars == Lower \cup Digit \cup {"/", "-"}

\* re.sub(r"[._:\s]+", "-", s)
SubSeparators(s) ==
    LET marked == ListOf([i \in 1..Len(s) |->
                     IF s[i] \in SepChars
                     THEN (IF i > 1 /\ s[i-1] \in SepChars THEN "" ELSE "-")
                     ELSE s[i]])
    IN SelectSeq(marked, LAMBDA c : c # "")

\* re.sub(r"[^a-z0-9/-]+", "", s)
StripDisallowed(s) == SelectSeq(s, LAMBDA c : c \in AllowedChars)

\* re.sub(r"-+", "-", s)
CollapseDashes(s) ==
    LET marked == ListOf([i \in 1..Len(s) |->
                     IF s[i] = "-" /\ i > 1 /\ s[i-1] = "-" THEN "" ELSE s[i]])
    IN SelectSeq(marked, LAMBDA c : c # "")

\* str.strip(chars)
StripChars(s, chars) ==
    LET keep == {i \in 1..Len(s) : s[i] \notin chars}
    IN IF keep = {} THEN <<>>
       ELSE SubSeq(s, CHOOSE i \in keep : \A j \in keep : i <= j,
                      CHOOSE i \in keep : \A j \in keep : i >= j)

\* _normalize collapsing the dashes before it strips the other characters
_normalize_collapsing_first(value) ==
    LET lowered == ListOf([i \in 1..Len(value) |-> ToLower(value[i])])
    IN StripChars(StripDisallowed(CollapseDashes(SubSeparators(lowered))), {"-", "/"})

_normalize(value) ==
    LET lowered == ListOf([i \in 1..Len(value) |-> ToLower(value[i])])
    IN StripChars(CollapseDashes(StripDisallowed(SubSeparators(lowered))), {"-", "/"})

\* str.split(sep) for a one-character separator
RECURSIVE SplitOn(_, _)
SplitOn(s, sep) ==
    LET hits == {i \in 1..Len(s) : s[i] = sep}
    IN IF hits = {} THEN <<s>>
       ELSE LET i == CHOOSE k \in hits : \A j \in hits : k <= j
            IN <<SubSeq(s, 1, i - 1)>> \o SplitOn(SubSeq(s, i + 1, Len(s)), sep)

_split_base_model_id(model_id) ==
    LET parts == SplitOn(model_id, "/") IN parts[Len(parts)]

AllDigits(s) == \A i \in 1..Len(s) : s[i] \in Digit

\* re.fullmatch(r"\d+b", token)
IsPlainBScale(token) ==
    Len(token) >= 2 /\ token[Len(token)] = "b" /\ AllDigits(SubSeq(token, 1, Len(token) - 1))

\* re.fullmatch(r"a\d+b", token)
IsActiveBScale(token) ==
    Len(token) >= 3 /\ token[1] = "a" /\ token[Len(token)] = "b"
        /\ AllDigits(SubSeq(token, 2, Len(token) - 1))

_is_b_scale_token(token) == IsPlainBScale(token) \/ IsActiveBScale(token)

\* re.split at every digit/non-digit boundary, empty parts dropped
RECURSIVE SplitRuns(_)
SplitRuns(token) ==
    IF token = <<>> THEN <<>>
    ELSE LET cuts == {i \in 1..(Len(token) - 1) :
                        (token[i] \in Digit) # (token[i+1] \in Digit)}
         IN IF cuts = {} THEN <<token>>
            ELSE LET i == CHOOSE k \in cuts : \A j \in cuts : k <= j
                 IN <<SubSeq(token, 1, i)>> \o SplitRuns(SubSeq(token, i + 1, Len(token)))

_split_mixed_alphanumeric_token(token) ==
    IF _is_b_scale_token(token) THEN <<token>> ELSE SplitRuns(token)

MODEL_NAME_TAG_TOKENS ==
    { <<"f","r","e","e">>, <<"e","x","t","e","n","d","e","d">>,
      <<"e","x","a","c","t","o">>, <<"i","n","s","t","r","u","c","t">>,
      <<"v","l">>, <<"t","h","i","n","k","i","n","g">>,
      <<"r","e","a","s","o","n","i","n","g">>, <<"o","n","l","i","n","e">>,
      <<"n","i","t","r","o">> }

RECURSIVE Flatten(_)
Flatten(seqs) == IF seqs = <<>> THEN <<>> ELSE Head(seqs) \o Flatten(Tail(seqs))

_split_tokens(value) ==
    LET dashed == SplitOn(_normalize(value), "-")
        parts == Flatten(ListOf([i \in 1..Len(dashed) |->
                            _split_mixed_alphanumeric_token(dashed[i])]))
    IN SelectSeq(parts, LAMBDA p : p # <<>> /\ p \notin MODEL_NAME_TAG_TOKENS)

(***************************************************************************)
(* JSON values.  A value is a record [t, v]: t is the type tag, v the      *)
(* payload.  "num" holds a finite real as an exact fraction n/d of         *)
(* thousandths (d > 0, lowest terms), "int" an exact integer (epoch        *)
(* seconds, status codes), "nan" and "inf" the non-finite floats           *)
(* json.loads accepts, "str" a character sequence, "obj" a function from   *)
(* keys, "list" a sequence, "omap" an object whose key order matters (a     *)
(* sequence of <<key, value>> pairs, keys as character sequences).         *)
(***************************************************************************)
Milli == 10 * 100

Abs(n) == IF n < 0 THEN -n ELSE n

RECURSIVE GCD(_, _)
GCD(a, b) == IF b = 0 THEN a ELSE GCD(b, a % b)

\* the fraction n/d in lowest terms, d > 0
Rat(n, d) ==
    LET g == GCD(Abs(n), Abs(d))
        sgn == IF d < 0 THEN -1 ELSE 1
    IN [n |-> sgn * (n \div g), d |-> sgn * (d \div g)]

RAdd(a, b) == Rat(a.n * b.d + b.n * a.d, a.d * b.d)
RSub(a, b) == Rat(a.n * b.d - b.n * a.d, a.d * b.d)
RScale(a, k) == Rat(a.n * k, a.d)
RDiv(a, k) == Rat(a.n, a.d * k)
RLess(a, b) == a.n * b.d < b.n * a.d
RLeq(a, b) == a.n * b.d <= b.n * a.d
RZero == Rat(0, 1)

RECURSIVE RSum(_)
RSum(q) == IF q = <<>> THEN RZero ELSE RAdd(Head(q), RSum(Tail(q)))

JNull == [t |-> "null", v |-> 0]
IsNull(x) == x.t = "null"
JRat(r) == [t |-> "num", v |-> r]
JNum(m) == JRat(Rat(m, 1))
JInt(n) == [t |-> "int", v |-> n]
JNaN == [t |-> "nan", v |-> 0]
JInf == [t |-> "inf", v |-> 0]
JStr(s) == [t |-> "str", v |-> s]
JObj(f) == [t |-> "obj", v |-> f]
JList(q) == [t |-> "list", v |-> q]
JBool(b) == [t |-> "bool", v |-> b]
JOMap(q) == [t |-> "omap", v |-> q]
EmptyObj == JObj(<<>>)

\* bool(value)
Truthy(x) ==
    CASE x.t = "null" -> FALSE
      [] x.t = "num" -> x.v.n # 0
      [] x.t = "int" -> x.v # 0
      [] x.t \in {"nan", "inf"} -> TRUE
      [] x.t = "bool" -> x.v
      [] x.t = "str" -> x.v # <<>>
      [] x.t = "obj" -> DOMAIN x.v # {}
      [] x.t \in {"list", "omap"} -> x.v # <<>>

\* dict.get(key); the caller checks IsObj first where Python would raise
Get(o, k) == IF k \in DOMAIN o.v THEN o.v[k] ELSE JNull

IsObj(x) == x.t = "obj"
\* == on two JSON values (the tags first: payloads of two types are not compared)
JEq(a, b) == a.t = b.t /\ a.v = b.v
IsStr(x) == x.t = "str"

\* `value or {}`
OrEmptyObj(x) == IF Truthy(x) THEN x ELSE EmptyObj

(***************************************************************************)
(* Provider-A scorer: artificial_analysis.py                               *)
(***************************************************************************)
LOOKBACK_DAYS == 365
BENCHMARK_KEYS == <<"hle", "terminalbench_hard", "lcr", "ifbench", "scicode">>
\* SCORE_WEIGHTS, in tenths
SCORE_WEIGHTS ==
    [intelligence |-> 3, benchmark_bias |-> 3, price |-> 2, speed |-> 2]

RECURSIVE ParseDigits(_)
ParseDigits(s) ==
    IF s = <<>> THEN 0 ELSE 10 * ParseDigits(SubSeq(s, 1, Len(s) - 1)) + DigitVal(s[Len(s)])

\* float(value) when it succeeds with a finite result, else None (JNull).
\* Of the strings, those of decimal digits are parsed; any other string of
\* the model is one float() rejects.
_as_finite_float(value) ==
    CASE value.t = "num" -> value
      [] value.t = "int" -> JNum(value.v * Milli)
      [] value.t = "bool" -> JNum(IF value.v THEN Milli ELSE 0)
      [] value.t = "str" /\ value.v # <<>> /\ AllDigits(value.v) ->
             JNum(ParseDigits(value.v) * Milli)
      [] OTHER -> JNull

_is_positive_finite(value) ==
    LET numeric == _as_finite_float(value)
    IN ~IsNull(numeric) /\ numeric.v.n > 0

\* math.log on thousandths, in thousandths, to three decimals, for the
\* arguments that occur in the model
LogTable ==
    [x \in {250, 500, 1000, 2000, 4000, 10000, 20000, 40000, 80000} |->
        CASE x = 250 -> -1386 [] x = 500 -> -693 [] x = 1000 -> 0
          [] x = 2000 -> 693 [] x = 4000 -> 1386 [] x = 10000 -> 2303
          [] x = 20000 -> 2996 [] x = 40000 -> 3689 [] x = 80000 -> 4382]

MathLog(r) == Rat(LogTable[r.n], 1)

_signed_log(value, invert) ==
    LET numeric == _as_finite_float(value)
    IN IF IsNull(numeric) \/ numeric.v.n <= 0 THEN JNull
       ELSE JRat(IF invert THEN RScale(MathLog(numeric.v), -1) ELSE MathLog(numeric.v))

\* the values of a list that are not None
NotNone(values) == SelectSeq(values, LAMBDA x : ~IsNull(x))

_mean(values) ==
    LET finite_values == NotNone(values)
    IN IF finite_values = <<>> THEN JNull
       ELSE JRat(RDiv(RSum(ListOf([i \in 1..Len(finite_values) |-> finite_values[i].v])),
                      Len(finite_values)))

\* pairs: a sequence of <<value, weight>>, weight in tenths
\* _weighted_mean dividing by the weights of all the pairs, None included
_weighted_mean_of_all(pairs) ==
    LET valid_pairs == SelectSeq(pairs, LAMBDA p : ~IsNull(p[1]) /\ p[2] > 0)
        weighted_sum == RSum(ListOf([i \in 1..Len(valid_pairs) |->
                                RScale(valid_pairs[i][1].v, valid_pairs[i][2])]))
        RECURSIVE WSum(_)
        WSum(q) == IF q = <<>> THEN 0 ELSE Head(q)[2] + WSum(Tail(q))
        weight_sum == WSum(pairs)
    IN IF valid_pairs = <<>> \/ weight_sum = 0 THEN JNull
       ELSE JRat(RDiv(weighted_sum, weight_sum))

_weighted_mean(pairs) ==
    LET valid_pairs == SelectSeq(pairs, LAMBDA p : ~IsNull(p[1]) /\ p[2] > 0)
        weighted_sum == RSum(ListOf([i \in 1..Len(valid_pairs) |->
                                RScale(valid_pairs[i][1].v, valid_pairs[i][2])]))
        RECURSIVE WSum(_)
        WSum(q) == IF q = <<>> THEN 0 ELSE Head(q)[2] + WSum(Tail(q))
        weight_sum == WSum(valid_pairs)
    IN IF valid_pairs = <<>> \/ weight_sum = 0 THEN JNull
       ELSE JRat(RDiv(weighted_sum, weight_sum))

\* _percentile_rank counting the values strictly below
_percentile_rank_strict(values, value) ==
    LET numeric_value == _as_finite_float(value)
        finite_values == NotNone(ListOf([i \in 1..Len(values) |-> _as_finite_float(values[i])]))
        less_count ==
            Cardinality({i \in 1..Len(finite_values) : RLess(finite_values[i].v, numeric_value.v)})
    IN IF IsNull(numeric_value) \/ finite_values = <<>> THEN JNull
       ELSE JRat(Rat(less_count * 100 * Milli, Len(finite_values)))

\* _percentile_rank dividing by the number of all the values, None included
_percentile_rank_of_all(values, value) ==
    LET numeric_value == _as_finite_float(value)
        finite_values == NotNone(ListOf([i \in 1..Len(values) |-> _as_finite_float(values[i])]))
        less_or_equal_count ==
            Cardinality({i \in 1..Len(finite_values) : RLeq(finite_values[i].v, numeric_value.v)})
    IN IF IsNull(numeric_value) \/ finite_values = <<>> THEN JNull
       ELSE JRat(Rat(less_or_equal_count * 100 * Milli, Len(values)))

_percentile_rank(values, value) ==
    LET numeric_value == _as_finite_float(value)
        finite_values == NotNone(ListOf([i \in 1..Len(values) |-> _as_finite_float(values[i])]))
        less_or_equal_count ==
            Cardinality({i \in 1..Len(finite_values) : RLeq(finite_values[i].v, numeric_value.v)})
    IN IF IsNull(numeric_value) \/ finite_values = <<>> THEN JNull
       ELSE JRat(Rat(less_or_equal_count * 100 * Milli, Len(finite_values)))

RECURSIVE _remove_ids(_)
_remove_ids(value) ==
    CASE value.t = "list" -> JList(ListOf([i \in 1..Len(value.v) |-> _remove_ids(value.v[i])]))
      [] value.t = "obj" -> JObj([k \in (DOMAIN value.v) \ {"id"} |-> _remove_ids(value.v[k])])
      [] OTHER -> value

\* sorted() and list.sort(): stable, ascending in the strict weak order Less.
\* The element at index i goes after the elements that are less and after
\* the equivalent elements of a smaller index.
StableSort(q, Less(_, _)) ==
    LET Position(i) ==
            1 + Cardinality({j \in 1..Len(q) :
                               \/ Less(q[j], q[i])
                               \/ ~Less(q[i], q[j]) /\ j < i})
    IN ListOf([k \in 1..Len(q) |-> q[CHOOSE i \in 1..Len(q) : Position(i) = k]])

\* dict with one more key (the new key wins), as {**model, key: value}
With(model, key, value) == JObj((key :> value) @@ model.v)

\* intelligence_score, from the two indexes as finite floats
IntelligenceScore(intelligence, coding) ==
    IF ~IsNull(intelligence) /\ ~IsNull(coding)
    THEN JRat(RAdd(RScale(intelligence.v, 2), coding.v))
    ELSE JNull

\* benchmark_bias_score: the mean of the benchmarks that are positive finite
BenchmarkBiasScore(evaluations) ==
    _mean(ListOf([i \in 1..Len(BENCHMARK_KEYS) |->
             IF _is_positive_finite(Get(evaluations, BENCHMARK_KEYS[i]))
             THEN _as_finite_float(Get(evaluations, BENCHMARK_KEYS[i]))
             ELSE JNull]))

\* the "scores" dict, from the four partial scores
ScoresOf(intelligence_score, benchmark_bias_score, price_score, speed_score) ==
    JObj([overall_score |->
              _weighted_mean(<< <<intelligence_score, SCORE_WEIGHTS.intelligence>>,
                                <<benchmark_bias_score, SCORE_WEIGHTS.benchmark_bias>>,
                                <<price_score, SCORE_WEIGHTS.price>>,
                                <<speed_score, SCORE_WEIGHTS.speed>> >>),
          intelligence_score |-> intelligence_score,
          benchmark_bias_score |-> benchmark_bias_score,
          price_score |-> price_score,
          speed_score |-> speed_score])

\* the body of the loop of _compute_scores, for one model
ScoreOne(model) ==
    LET evaluations == OrEmptyObj(Get(model, "evaluations"))
        pricing == OrEmptyObj(Get(model, "pricing"))
    IN With(model, "scores",
            ScoresOf(IntelligenceScore(
                         _as_finite_float(Get(evaluations, "artificial_analysis_intelligence_index")),
                         _as_finite_float(Get(evaluations, "artificial_analysis_coding_index"))),
                     BenchmarkBiasScore(evaluations),
                     _signed_log(Get(pricing, "price_1m_blended_3_to_1"), TRUE),
                     _mean(<<_signed_log(Get(model, "median_time_to_first_answer_token"), TRUE),
                             _signed_log(Get(model, "median_output_tokens_per_second"), FALSE)>>)))

_compute_scores(filtered_models) ==
    ListOf([i \in 1..Len(filtered_models) |-> ScoreOne(filtered_models[i])])

\* the condition without the test of the blended price
PassesFilterWithoutBlended(model, cutoff_date) ==
    LET release_date == Get(model, "release_date")
        pricing == OrEmptyObj(Get(model, "pricing"))
    IN /\ StrGeq(IF Truthy(release_date) THEN release_date.v ELSE <<>>, cutoff_date)
       /\ _is_positive_finite(Get(pricing, "price_1m_input_tokens"))
       /\ _is_positive_finite(Get(pricing, "price_1m_output_tokens"))
       /\ _is_positive_finite(Get(model, "median_time_to_first_answer_token"))
       /\ _is_positive_finite(Get(model, "median_output_tokens_per_second"))

\* the condition of the list comprehension of _rank_and_enrich_models
PassesFilter(model, cutoff_date) ==
    LET release_date == Get(model, "release_date")
        pricing == OrEmptyObj(Get(model, "pricing"))
    IN /\ StrGeq(IF Truthy(release_date) THEN release_date.v ELSE <<>>, cutoff_date)
       /\ _is_positive_finite(Get(pricing, "price_1m_blended_3_to_1"))
       /\ _is_positive_finite(Get(pricing, "price_1m_input_tokens"))
       /\ _is_positive_finite(Get(pricing, "price_1m_output_tokens"))
       /\ _is_positive_finite(Get(model, "median_time_to_first_answer_token"))
       /\ _is_positive_finite(Get(model, "median_output_tokens_per_second"))

\* the inputs on which _rank_and_enrich_models raises: a model that is no
\* dict (AttributeError on .get), a truthy release_date that is no string
\* (TypeError on >=), and, once the date test has passed, a truthy pricing
\* that is no dict; for a model that passes the filter, a truthy
\* evaluations that is no dict (in _compute_scores)
RankRaisesOn(model, cutoff_date) ==
    \/ ~IsObj(model)
    \/ /\ IsObj(model)
       /\ LET release_date == Get(model, "release_date")
              pricing == Get(model, "pricing")
              evaluations == Get(model, "evaluations")
          IN \/ Truthy(release_date) /\ ~IsStr(release_date)
             \/ /\ ~Truthy(release_date) \/ IsStr(release_date)
                /\ StrGeq(IF Truthy(release_date) THEN release_date.v ELSE <<>>, cutoff_date)
                /\ \/ Truthy(pricing) /\ ~IsObj(pricing)
                   \/ /\ ~Truthy(pricing) \/ IsObj(pricing)
                      /\ PassesFilter(model, cutoff_date)
                      /\ Truthy(evaluations) /\ ~IsObj(evaluations)

RankRaises(models, cutoff_date) ==
    \E i \in 1..Len(models) : RankRaisesOn(models[i], cutoff_date)

OverallOf(model) == _as_finite_float(Get(OrEmptyObj(Get(model, "scores")), "overall_score"))

\* float("-inf"), the sort key of a model whose overall score is falsy
NegInf == [t |-> "neginf", v |-> 0]

\* the sort key `_as_finite_float(overall_score) or float("-inf")`: an overall
\* score of 0.0 is falsy, so its key is -inf
RankKey(model) == IF Truthy(OverallOf(model)) THEN OverallOf(model) ELSE NegInf

\* < on two sort keys
RankKeyLess(a, b) ==
    IF a.t = "neginf" THEN b.t # "neginf"
    ELSE b.t # "neginf" /\ RLess(a.v, b.v)

\* sorted(q, key=..., reverse=True): descending in the key, equal keys in
\* input order
SortDesc(q) == StableSort(q, LAMBDA a, b : RankKeyLess(RankKey(b), RankKey(a)))

ScoreColumn(ranked, key) ==
    ListOf([i \in 1..Len(ranked) |-> Get(OrEmptyObj(Get(ranked[i], "scores")), key)])

\* the "percentiles" dict of one ranked model
PercentilesOf(ranked, scores) ==
    JObj([overall_percentile |->
              _percentile_rank(ScoreColumn(ranked, "overall_score"),
                               Get(scores, "overall_score")),
          intelligence_percentile |->
              _percentile_rank(ScoreColumn(ranked, "intelligence_score"),
                               Get(scores, "intelligence_score")),
          speed_percentile |->
              _percentile_rank(ScoreColumn(ranked, "speed_score"), Get(scores, "speed_score")),
          price_percentile |->
              _percentile_rank(ScoreColumn(ranked, "price_score"), Get(scores, "price_score"))])

\* the loop that adds the percentiles to the ranked models
EnrichModels(ranked) ==
    ListOf([i \in 1..Len(ranked) |->
               With(ranked[i], "percentiles",
                    PercentilesOf(ranked, OrEmptyObj(Get(ranked[i], "scores"))))])

_rank_and_enrich_models(models, cutoff_date) ==
    LET filtered_models == SelectSeq(models, LAMBDA m : PassesFilter(m, cutoff_date))
        scored_models == _compute_scores(filtered_models)
    IN EnrichModels(SortDesc(SelectSeq(scored_models, LAMBDA m : ~IsNull(OverallOf(m)))))

(***************************************************************************)
(* Matcher: matcher.py.  Match scores are exact fractions (unit 1) while   *)
(* they are computed and JSON numbers (thousandths) once stored.           *)
(***************************************************************************)
TOKEN_PREFIX_WEIGHTS == <<5, 4, 3, 2, 1>>
DEFAULT_MAX_CANDIDATES == 5
TOKEN_PREFIX_REWARD_MULTIPLIER == 2
NUMERIC_EXACT_MATCH_REWARD == 2
NUMERIC_CLOSENESS_REWARD_SCALE == Rat(1, 10)
NUMERIC_ALL_EQUAL_REWARD == Rat(2, 10)
VARIANT_SUFFIX_REWARD == 2
COVERAGE_EXACT_REWARD == 4
COVERAGE_MISSING_BASE_PENALTY == 1
B_SCALE_EXACT_REWARD == 3
B_SCALE_MISMATCH_PENALTY == 4
B_SCALE_MISSING_PENALTY == 2
ACTIVE_B_EXACT_REWARD == 2
ACTIVE_B_MISMATCH_PENALTY == 2
CHAR_PREFIX_REWARD_SCALE == Rat(3, 100)
LENGTH_GAP_PENALTY_SCALE == Rat(5, 1000)
PROVIDER_FILTER == <<"o","p","e","n","r","o","u","t","e","r">>
\* a threshold half way between the minimum and the maximum
VoidRangeRatioHalf == Rat(50, 100)
VOID_THRESHOLD_RANGE_RATIO == Rat(35, 100)

RInt(k) == Rat(k, 1)
Min2(a, b) == IF a <= b THEN a ELSE b
Max2(a, b) == IF a >= b THEN a ELSE b
RMax(a, b) == IF RLess(a, b) THEN b ELSE a

_is_numeric_token(token) == token # <<>> /\ AllDigits(token)

\* the parsers return JInt(n), or JNull for None
_parse_numeric_or_b_scale_token(token) ==
    IF token = <<>> THEN JNull
    ELSE IF AllDigits(token) THEN JInt(ParseDigits(token))
    ELSE IF IsPlainBScale(token) THEN JInt(ParseDigits(SubSeq(token, 1, Len(token) - 1)))
    ELSE IF IsActiveBScale(token) THEN JInt(ParseDigits(SubSeq(token, 2, Len(token) - 1)))
    ELSE JNull

_parse_b_scale_token(token) ==
    IF IsPlainBScale(token) THEN JInt(ParseDigits(SubSeq(token, 1, Len(token) - 1)))
    ELSE JNull

_parse_active_b_token(token) ==
    IF IsActiveBScale(token) THEN JInt(ParseDigits(SubSeq(token, 2, Len(token) - 1)))
    ELSE JNull

_first_parsed_number(tokens, parser(_)) ==
    LET hits == {i \in 1..Len(tokens) : ~IsNull(parser(tokens[i]))}
    IN IF hits = {} THEN JNull
       ELSE parser(tokens[CHOOSE i \in hits : \A j \in hits : i <= j])

_common_prefix_length(left, right) ==
    LET max_len == Min2(Len(left), Len(right))
        diff == {i \in 1..max_len : left[i] # right[i]}
    IN IF diff = {} THEN max_len
       ELSE (CHOOSE i \in diff : \A j \in diff : i <= j) - 1

_weighted_token_prefix_score(left_tokens, right_tokens) ==
    LET n == _common_prefix_length(left_tokens, right_tokens)
        RECURSIVE Weights(_)
        Weights(k) ==
            IF k = 0 THEN 0
            ELSE Weights(k - 1)
                   + (IF k <= Len(TOKEN_PREFIX_WEIGHTS) THEN TOKEN_PREFIX_WEIGHTS[k] ELSE 0)
    IN Weights(n)

\* the loop of _numeric_match_reward over the two token lists
NumericMatchOf(aa_tokens, model_tokens) ==
    LET max_len == Min2(Len(aa_tokens), Len(model_tokens))
        both == {i \in 1..max_len :
                    /\ ~IsNull(_parse_numeric_or_b_scale_token(aa_tokens[i]))
                    /\ ~IsNull(_parse_numeric_or_b_scale_token(model_tokens[i]))}
    IN IF both = {} THEN 0
       ELSE LET idx == CHOOSE i \in both : \A j \in both : i <= j
            IN IF JEq(_parse_numeric_or_b_scale_token(aa_tokens[idx]),
                      _parse_numeric_or_b_scale_token(model_tokens[idx]))
               THEN NUMERIC_EXACT_MATCH_REWARD ELSE 0

_numeric_match_reward(aa_slug, model_id) ==
    NumericMatchOf(_split_tokens(aa_slug), _split_tokens(_split_base_model_id(model_id)))

\* the numbers of the tokens that parse as numeric or scale tokens
NumbersOf(tokens) ==
    LET parsed == ListOf([i \in 1..Len(tokens) |-> _parse_numeric_or_b_scale_token(tokens[i])])
        kept == NotNone(parsed)
    IN ListOf([i \in 1..Len(kept) |-> kept[i].v])

\* the loop of _numeric_closeness_reward over the two lists of numbers
NumericClosenessOf(aa_numbers, model_numbers) ==
    LET max_len == Max2(Len(aa_numbers), Len(model_numbers))
        \* the first index at which the loop returns
        stops == {i \in 1..max_len :
                    \/ i > Len(aa_numbers) \/ i > Len(model_numbers)
                    \/ aa_numbers[i] # model_numbers[i]}
    IN IF stops = {} THEN NUMERIC_ALL_EQUAL_REWARD
       ELSE LET idx == CHOOSE i \in stops : \A j \in stops : i <= j
            IN IF idx > Len(aa_numbers) \/ idx > Len(model_numbers) THEN RZero
               ELSE RDiv(NUMERIC_CLOSENESS_REWARD_SCALE,
                         1 + Abs(aa_numbers[idx] - model_numbers[idx]))

_numeric_closeness_reward(aa_slug, model_id) ==
    NumericClosenessOf(NumbersOf(_split_tokens(aa_slug)),
                       NumbersOf(_split_tokens(_split_base_model_id(model_id))))

\* base if base is not None else name
FirstNotNone(base, name) == IF ~IsNull(base) THEN base ELSE name

\* base value if it is not None, else the name's
CandidateNumber(model_id, model_name, parser(_)) ==
    FirstNotNone(_first_parsed_number(_split_tokens(_split_base_model_id(model_id)), parser),
                 _first_parsed_number(_split_tokens(model_name), parser))

\* the branches of _b_scale_reward_or_penalty on the two scales
BScaleOf(aa_b_scale, candidate_b_scale) ==
    IF IsNull(aa_b_scale) THEN 0
    ELSE IF IsNull(candidate_b_scale) THEN -B_SCALE_MISSING_PENALTY
    ELSE IF JEq(candidate_b_scale, aa_b_scale) THEN B_SCALE_EXACT_REWARD
    ELSE -B_SCALE_MISMATCH_PENALTY

_b_scale_reward_or_penalty(aa_slug, model_id, model_name) ==
    BScaleOf(_first_parsed_number(_split_tokens(aa_slug), _parse_b_scale_token),
             CandidateNumber(model_id, model_name, _parse_b_scale_token))

\* the branches of _has_hard_b_scale_mismatch on the two scales
HardMismatchOf(aa_b_scale, candidate_b_scale) ==
    IF IsNull(aa_b_scale) THEN FALSE
    ELSE IF IsNull(candidate_b_scale) THEN FALSE
    ELSE ~JEq(candidate_b_scale, aa_b_scale)

\* _has_hard_b_scale_mismatch that reads the candidate's scale in its id alone
_has_hard_b_scale_mismatch_by_id(aa_slug, model_id, model_name) ==
    HardMismatchOf(_first_parsed_number(_split_tokens(aa_slug), _parse_b_scale_token),
                   _first_parsed_number(_split_tokens(_split_base_model_id(model_id)),
                                        _parse_b_scale_token))

_has_hard_b_scale_mismatch(aa_slug, model_id, model_name) ==
    HardMismatchOf(_first_parsed_number(_split_tokens(aa_slug), _parse_b_scale_token),
                   CandidateNumber(model_id, model_name, _parse_b_scale_token))

\* the branches of _active_b_reward_or_penalty on the two active scales
ActiveBOf(aa_active_b, candidate_active_b) ==
    IF IsNull(aa_active_b) THEN 0
    ELSE IF IsNull(candidate_active_b) THEN 0
    ELSE IF JEq(candidate_active_b, aa_active_b) THEN ACTIVE_B_EXACT_REWARD
    ELSE -ACTIVE_B_MISMATCH_PENALTY

_active_b_reward_or_penalty(aa_slug, model_id, model_name) ==
    ActiveBOf(_first_parsed_number(_split_tokens(aa_slug), _parse_active_b_token),
              CandidateNumber(model_id, model_name, _parse_active_b_token))

\* tokens[-1] if tokens else None (<<>> for None: no token is empty)
LastToken(tokens) == IF tokens = <<>> THEN <<>> ELSE tokens[Len(tokens)]

\* the branches of _same_variant_reward on the three last tokens
\* _same_variant_reward without the test of a numeric last token
SameVariantOfAnyToken(aa_last_token, base_last_token, name_last_token) ==
    IF aa_last_token = <<>> THEN 0
    ELSE IF aa_last_token \in {base_last_token, name_last_token}
         THEN VARIANT_SUFFIX_REWARD ELSE 0

SameVariantOf(aa_last_token, base_last_token, name_last_token) ==
    IF aa_last_token = <<>> \/ _is_numeric_token(aa_last_token) THEN 0
    ELSE IF aa_last_token \in {base_last_token, name_last_token}
         THEN VARIANT_SUFFIX_REWARD ELSE 0

_same_variant_reward(aa_slug, model_id, model_name) ==
    SameVariantOf(LastToken(_split_tokens(aa_slug)),
                  LastToken(_split_tokens(_split_base_model_id(model_id))),
                  LastToken(_split_tokens(model_name)))

SetOf(q) == {q[i] : i \in DOMAIN q}

\* compare_sets of _coverage_reward_or_penalty
\* compare_sets rewarding every candidate set that misses no token
CompareSetsAnySuperset(aa_set, candidate_set) ==
    LET missing_count == Cardinality(aa_set \ candidate_set)
    IN IF aa_set = {} THEN 0
       ELSE IF missing_count > 0 THEN -COVERAGE_MISSING_BASE_PENALTY - missing_count
       ELSE COVERAGE_EXACT_REWARD

CompareSets(aa_set, candidate_set) ==
    LET missing_count == Cardinality(aa_set \ candidate_set)
    IN IF aa_set = {} THEN 0
       ELSE IF missing_count > 0 THEN -COVERAGE_MISSING_BASE_PENALTY - missing_count
       ELSE IF Cardinality(candidate_set) = Cardinality(aa_set) THEN COVERAGE_EXACT_REWARD
       ELSE 0

\* max(base_score, name_score) on the three token sets
CoverageOf(aa_set, base_set, name_set) ==
    Max2(CompareSets(aa_set, base_set), CompareSets(aa_set, name_set))

_coverage_reward_or_penalty(aa_slug, model_id, model_name) ==
    CoverageOf(SetOf(_split_tokens(aa_slug)),
               SetOf(_split_tokens(_split_base_model_id(model_id))),
               SetOf(_split_tokens(model_name)))

\* the test that compares the first characters of the first tokens
FirstTokenMatchByInitial(aa_tokens, base_tokens, name_tokens) ==
    /\ aa_tokens # <<>>
    /\ \/ base_tokens # <<>> /\ base_tokens[1][1] = aa_tokens[1][1]
       \/ name_tokens # <<>> /\ name_tokens[1][1] = aa_tokens[1][1]

\* the test of _has_first_token_match on the three token lists
FirstTokenMatchOf(aa_tokens, base_tokens, name_tokens) ==
    /\ aa_tokens # <<>>
    /\ \/ base_tokens # <<>> /\ base_tokens[1] = aa_tokens[1]
       \/ name_tokens # <<>> /\ name_tokens[1] = aa_tokens[1]

_has_first_token_match(aa_slug, model_id, model_name) ==
    FirstTokenMatchOf(_split_tokens(aa_slug),
                      _split_tokens(_split_base_model_id(model_id)),
                      _split_tokens(model_name))

\* max_prefix, from the three normalized names
MaxPrefixOf(normalized_aa, normalized_model_base, normalized_model_name) ==
    Max2(_common_prefix_length(normalized_aa, normalized_model_base),
         _common_prefix_length(normalized_aa, normalized_model_name))

\* weighted_token_score, from the three token lists
WeightedTokenScoreOf(aa_tokens, model_base_tokens, model_name_tokens) ==
    Max2(_weighted_token_prefix_score(aa_tokens, model_base_tokens),
         _weighted_token_prefix_score(aa_tokens, model_name_tokens))

\* the score, from max_prefix, weighted_token_score and the length gap
ScoreOf(aa_slug, model_id, model_name, max_prefix, weighted_token_score, length_gap) ==
    IF max_prefix = 0 THEN RZero
    ELSE IF _has_hard_b_scale_mismatch(aa_slug, model_id, model_name) THEN RZero
    ELSE RSum(<< RInt(weighted_token_score * TOKEN_PREFIX_REWARD_MULTIPLIER),
                 RInt(_numeric_match_reward(aa_slug, model_id)),
                 _numeric_closeness_reward(aa_slug, model_id),
                 RInt(_same_variant_reward(aa_slug, model_id, model_name)),
                 RInt(_b_scale_reward_or_penalty(aa_slug, model_id, model_name)),
                 RInt(_active_b_reward_or_penalty(aa_slug, model_id, model_name)),
                 RInt(_coverage_reward_or_penalty(aa_slug, model_id, model_name)),
                 RScale(CHAR_PREFIX_REWARD_SCALE, max_prefix),
                 RScale(LENGTH_GAP_PENALTY_SCALE, -length_gap) >>)

_score_candidate(aa_slug, model_id, model_name) ==
    LET normalized_aa == _normalize(aa_slug)
        normalized_model_base == _normalize(_split_base_model_id(model_id))
    IN ScoreOf(aa_slug, model_id, model_name,
               MaxPrefixOf(normalized_aa, normalized_model_base, _normalize(model_name)),
               WeightedTokenScoreOf(_split_tokens(aa_slug),
                                    _split_tokens(_split_base_model_id(model_id)),
                                    _split_tokens(model_name)),
               Abs(Len(normalized_aa) - Len(normalized_model_base)))

_scope_to_openrouter_models(models_dev_models) ==
    SelectSeq(models_dev_models, LAMBDA m : JEq(Get(m, "provider_id"), JStr(PROVIDER_FILTER)))

\* str(value or ""), for the values of the model: strings and falsy values
StrOrEmpty(value) == IF IsStr(value) THEN value.v ELSE <<>>

\* the sort key (-score, model_id) of the candidates
CandidateBefore(a, b) ==
    \/ RLess(Get(b, "score").v, Get(a, "score").v)
    \/ /\ JEq(Get(a, "score"), Get(b, "score"))
       /\ StrLess(Get(a, "model_id").v, Get(b, "model_id").v)

SortCandidates(q) == StableSort(q, CandidateBefore)

\* the candidate appended for a models.dev row that has the score, JNull
\* when the score is not positive
CandidateWith(model_stats_model, model_id, model_name, score) ==
    IF RLeq(score, RZero) THEN JNull
    ELSE JObj([model_id |-> JStr(model_id),
               provider_id |-> JStr(StrOrEmpty(Get(model_stats_model, "provider_id"))),
               provider_name |-> JStr(StrOrEmpty(Get(model_stats_model, "provider_name"))),
               model_name |-> IF model_name # <<>> THEN JStr(model_name) ELSE JNull,
               score |-> JRat(RScale(score, Milli))])

\* the candidate of one models.dev row, JNull when the row is skipped
CandidateOf(aa_slug, model_stats_model) ==
    LET raw_name == Get(Get(model_stats_model, "model"), "name")
        model_name == IF IsStr(raw_name) THEN raw_name.v ELSE <<>>
        model_id == StrOrEmpty(Get(model_stats_model, "model_id"))
    IN IF ~_has_first_token_match(aa_slug, model_id, model_name) THEN JNull
       ELSE CandidateWith(model_stats_model, model_id, model_name,
                          _score_candidate(aa_slug, model_id, model_name))

_collect_candidates_for_aa_model(aa_model, models_dev_models) ==
    LET aa_slug == StrOrEmpty(Get(aa_model, "slug"))
    IN IF aa_slug = <<>> THEN <<>>
       ELSE SortCandidates(NotNone(ListOf([i \in 1..Len(models_dev_models) |->
                                      CandidateOf(aa_slug, models_dev_models[i])])))

\* the rows that enter the threshold: best_match is a dict with a number as score
HasBestScore(model) ==
    IsObj(Get(model, "best_match")) /\ Get(Get(model, "best_match"), "score").t = "num"

\* _apply_maxmin_half_void clearing the scores at the threshold as well
_apply_maxmin_half_void_inclusive(models) ==
    LET scored == SelectSeq(models, HasBestScore)
        scores == ListOf([i \in 1..Len(scored) |-> Get(Get(scored[i], "best_match"), "score").v])
        min_score == CHOOSE x \in SetOf(scores) : \A y \in SetOf(scores) : RLeq(x, y)
        max_score == CHOOSE x \in SetOf(scores) : \A y \in SetOf(scores) : RLeq(y, x)
        threshold ==
            RAdd(min_score,
                 Rat(RSub(max_score, min_score).n * VOID_THRESHOLD_RANGE_RATIO.n,
                     RSub(max_score, min_score).d * VOID_THRESHOLD_RANGE_RATIO.d))
        Voids(model) ==
            HasBestScore(model) /\ RLeq(Get(Get(model, "best_match"), "score").v, threshold)
        Cleared(model) ==
            LET no_match == With(model, "best_match", JNull)
            IN IF Get(model, "candidates").t = "list"
               THEN With(no_match, "candidates", JList(<<>>))
               ELSE no_match
    IN IF scored = <<>>
       THEN [threshold |-> JNull, voided |-> 0, models |-> models]
       ELSE [threshold |-> JRat(threshold),
             voided |-> Cardinality({i \in 1..Len(models) : Voids(models[i])}),
             models |-> ListOf([i \in 1..Len(models) |->
                           IF Voids(models[i]) THEN Cleared(models[i]) ELSE models[i]])]

\* returns (threshold, voided) and, as `models`, the list it has mutated
_apply_maxmin_half_void(models) ==
    LET scored == SelectSeq(models, HasBestScore)
        scores == ListOf([i \in 1..Len(scored) |-> Get(Get(scored[i], "best_match"), "score").v])
        min_score == CHOOSE x \in SetOf(scores) : \A y \in SetOf(scores) : RLeq(x, y)
        max_score == CHOOSE x \in SetOf(scores) : \A y \in SetOf(scores) : RLeq(y, x)
        threshold ==
            RAdd(min_score,
                 Rat(RSub(max_score, min_score).n * VOID_THRESHOLD_RANGE_RATIO.n,
                     RSub(max_score, min_score).d * VOID_THRESHOLD_RANGE_RATIO.d))
        Voids(model) ==
            HasBestScore(model) /\ RLess(Get(Get(model, "best_match"), "score").v, threshold)
        Cleared(model) ==
            LET no_match == With(model, "best_match", JNull)
            IN IF Get(model, "candidates").t = "list"
               THEN With(no_match, "candidates", JList(<<>>))
               ELSE no_match
    IN IF scored = <<>>
       THEN [threshold |-> JNull, voided |-> 0, models |-> models]
       ELSE [threshold |-> JRat(threshold),
             voided |-> Cardinality({i \in 1..Len(models) : Voids(models[i])}),
             models |-> ListOf([i \in 1..Len(models) |->
                           IF Voids(models[i]) THEN Cleared(models[i]) ELSE models[i]])]

\* isinstance(value, str): value, else the default
StrOr(value, default) == IF IsStr(value) THEN value ELSE default

\* a or b
Or(a, b) == IF Truthy(a) THEN a ELSE b

\* the row whose union spreads the source model first and the models.dev
\* model over it
UnionRowOfNestedLast(aa_model, scoped_models_dev_models, candidates) ==
    LET best_match == IF candidates # <<>> THEN candidates[1] ELSE JNull
        hits == {i \in 1..Len(scoped_models_dev_models) :
                    JEq(Get(scoped_models_dev_models[i], "model_id"), Get(best_match, "model_id"))}
        matched_models_dev ==
            IF ~IsNull(best_match) /\ hits # {}
            THEN scoped_models_dev_models[CHOOSE i \in hits : \A j \in hits : i <= j]
            ELSE JNull
        nested == IF IsObj(matched_models_dev) THEN Get(matched_models_dev, "model") ELSE EmptyObj
        name == Or(Or(IF IsObj(matched_models_dev) THEN Get(OrEmptyObj(nested), "name") ELSE JNull,
                      Get(aa_model, "name")),
                   JNull)
        union_payload == JObj(("name" :> name) @@ nested.v @@ aa_model.v)
    IN JObj([artificial_analysis_slug |-> StrOr(Get(aa_model, "slug"), JStr(<<>>)),
             artificial_analysis_name |-> StrOr(Get(aa_model, "name"), JNull),
             artificial_analysis_release_date |-> StrOr(Get(aa_model, "release_date"), JNull),
             best_match |-> best_match,
             artificial_analysis |-> aa_model,
             models_dev |-> matched_models_dev,
             union |-> union_payload])

\* one row of the loop of get_match_models_union, from the candidates of
\* the model
UnionRowOf(aa_model, scoped_models_dev_models, candidates) ==
    LET best_match == IF candidates # <<>> THEN candidates[1] ELSE JNull
        hits == {i \in 1..Len(scoped_models_dev_models) :
                    JEq(Get(scoped_models_dev_models[i], "model_id"), Get(best_match, "model_id"))}
        matched_models_dev ==
            IF ~IsNull(best_match) /\ hits # {}
            THEN scoped_models_dev_models[CHOOSE i \in hits : \A j \in hits : i <= j]
            ELSE JNull
        nested == IF IsObj(matched_models_dev) THEN Get(matched_models_dev, "model") ELSE EmptyObj
        name == Or(Or(IF IsObj(matched_models_dev) THEN Get(OrEmptyObj(nested), "name") ELSE JNull,
                      Get(aa_model, "name")),
                   JNull)
        union_payload == JObj(("name" :> name) @@ aa_model.v @@ nested.v)
    IN JObj([artificial_analysis_slug |-> StrOr(Get(aa_model, "slug"), JStr(<<>>)),
             artificial_analysis_name |-> StrOr(Get(aa_model, "name"), JNull),
             artificial_analysis_release_date |-> StrOr(Get(aa_model, "release_date"), JNull),
             best_match |-> best_match,
             artificial_analysis |-> aa_model,
             models_dev |-> matched_models_dev,
             union |-> union_payload])

UnionRow(aa_model, scoped_models_dev_models) ==
    UnionRowOf(aa_model, scoped_models_dev_models,
               _collect_candidates_for_aa_model(aa_model, scoped_models_dev_models))

\* the except branch of get_match_models_union
EmptyUnionPayload ==
    [artificial_analysis_fetched_at_epoch_seconds |-> JNull,
     models_dev_fetched_at_epoch_seconds |-> JNull,
     total_artificial_analysis_models |-> 0,
     total_models_dev_models |-> 0,
     void_mode |-> "maxmin_half",
     void_threshold |-> JNull,
     voided_count |-> 0,
     total_union_models |-> 0,
     models |-> <<>>]

\* the rows the loop of get_match_models_union builds
UnionRows(aa_models, scoped_models_dev_models) ==
    ListOf([i \in 1..Len(aa_models) |-> UnionRow(aa_models[i], scoped_models_dev_models)])

\* the unions of all the rows
UnionsOfAll(rows) == ListOf([i \in 1..Len(rows) |-> Get(rows[i], "union")])

\* the unions of the rows that keep a best match
UnionsOf(rows) ==
    LET kept == SelectSeq(rows, LAMBDA row : ~IsNull(Get(row, "best_match")))
    IN ListOf([i \in 1..Len(kept) |-> Get(kept[i], "union")])

\* the payload get_match_models_union returns, from what the void step gave
\* and the unions
UnionPayload(artificial_analysis_stats, models_dev_stats, total_models_dev_models, void, unions) ==
    [artificial_analysis_fetched_at_epoch_seconds |->
         artificial_analysis_stats.fetched_at_epoch_seconds,
     models_dev_fetched_at_epoch_seconds |-> models_dev_stats.fetched_at_epoch_seconds,
     total_artificial_analysis_models |-> Len(artificial_analysis_stats.models),
     total_models_dev_models |-> total_models_dev_models,
     void_mode |-> "maxmin_half",
     void_threshold |-> void.threshold,
     voided_count |-> void.voided,
     total_union_models |-> Len(unions),
     models |-> unions]

UnionVoided(artificial_analysis_stats, models_dev_stats, total_models_dev_models, void) ==
    UnionPayload(artificial_analysis_stats, models_dev_stats, total_models_dev_models, void,
                 UnionsOf(void.models))

\* the try branch of get_match_models_union, from the two stats payloads
BuildUnion(artificial_analysis_stats, models_dev_stats) ==
    LET scoped_models_dev_models == _scope_to_openrouter_models(models_dev_stats.models)
    IN UnionVoided(artificial_analysis_stats, models_dev_stats, Len(scoped_models_dev_models),
                   _apply_maxmin_half_void(UnionRows(artificial_analysis_stats.models,
                                                     scoped_models_dev_models)))

\* q[:n]
Slice(q, n) ==
    IF n >= 0 THEN SubSeq(q, 1, Min2(n, Len(q))) ELSE SubSeq(q, 1, Max2(Len(q) + n, 0))

\* one entry of the loop of get_match_model_mapping, from the candidates it
\* keeps
\* the entry whose best_match is the last of the candidates it keeps
MappingRowOfLast(aa_model, candidates) ==
    JObj([artificial_analysis_slug |-> StrOr(Get(aa_model, "slug"), JStr(<<>>)),
          artificial_analysis_name |-> StrOr(Get(aa_model, "name"), JNull),
          artificial_analysis_release_date |-> StrOr(Get(aa_model, "release_date"), JNull),
          best_match |-> IF candidates # <<>> THEN candidates[Len(candidates)] ELSE JNull,
          candidates |-> JList(candidates)])

MappingRowOf(aa_model, candidates) ==
    JObj([artificial_analysis_slug |-> StrOr(Get(aa_model, "slug"), JStr(<<>>)),
          artificial_analysis_name |-> StrOr(Get(aa_model, "name"), JNull),
          artificial_analysis_release_date |-> StrOr(Get(aa_model, "release_date"), JNull),
          best_match |-> IF candidates # <<>> THEN candidates[1] ELSE JNull,
          candidates |-> JList(candidates)])

MappingRow(aa_model, scoped_models_dev_models, max_candidates) ==
    MappingRowOf(aa_model,
                 Slice(_collect_candidates_for_aa_model(aa_model, scoped_models_dev_models),
                       max_candidates))

\* the except branch of get_match_model_mapping
EmptyMappingPayload(max_candidates) ==
    [artificial_analysis_fetched_at_epoch_seconds |-> JNull,
     models_dev_fetched_at_epoch_seconds |-> JNull,
     total_artificial_analysis_models |-> 0,
     total_models_dev_models |-> 0,
     max_candidates |-> max_candidates,
     void_mode |-> "maxmin_half",
     void_threshold |-> JNull,
     voided_count |-> 0,
     models |-> <<>>]

\* the entries the loop of get_match_model_mapping builds
MappingRows(aa_models, scoped_models_dev_models, max_candidates) ==
    ListOf([i \in 1..Len(aa_models) |->
               MappingRow(aa_models[i], scoped_models_dev_models, max_candidates)])

\* the payload get_match_model_mapping returns, from what the void step gave
MappingPayload(artificial_analysis_stats, models_dev_stats, total_models_dev_models, max_candidates, void) ==
    [artificial_analysis_fetched_at_epoch_seconds |->
         artificial_analysis_stats.fetched_at_epoch_seconds,
     models_dev_fetched_at_epoch_seconds |-> models_dev_stats.fetched_at_epoch_seconds,
     total_artificial_analysis_models |-> Len(void.models),
     total_models_dev_models |-> total_models_dev_models,
     max_candidates |-> max_candidates,
     void_mode |-> "maxmin_half",
     void_threshold |-> void.threshold,
     voided_count |-> void.voided,
     models |-> void.models]

\* the try branch of get_match_model_mapping, from the two stats payloads
BuildMapping(artificial_analysis_stats, models_dev_stats, max_candidates) ==
    LET scoped_models_dev_models == _scope_to_openrouter_models(models_dev_stats.models)
    IN MappingPayload(artificial_analysis_stats, models_dev_stats,
                      Len(scoped_models_dev_models), max_candidates,
                      _apply_maxmin_half_void(MappingRows(artificial_analysis_stats.models,
                                                          scoped_models_dev_models,
                                                          max_candidates)))

(***************************************************************************)
(* Dates: datetime.date of an epoch time, and its isoformat()              *)
(***************************************************************************)
SECONDS_PER_DAY == 24 * 60 * 60

\* the civil date (proleptic Gregorian) of a day number counted from 1970-01-01
CivilFromDays(days) ==
    LET z == days + 719468
        era == z \div 146097
        doe == z - era * 146097
        yoe == (doe - doe \div 1460 + doe \div 36524 - doe \div 146096) \div 365
        doy == doe - (365 * yoe + yoe \div 4 - yoe \div 100)
        mp == (5 * doy + 2) \div 153
        d == doy - (153 * mp + 2) \div 5 + 1
        m == IF mp < 10 THEN mp + 3 ELSE mp - 9
        y == yoe + era * 400 + (IF m <= 2 THEN 1 ELSE 0)
    IN [year |-> y, month |-> m, day |-> d]

\* "%0<width>d" of a natural number
RECURSIVE ZeroPad(_, _)
ZeroPad(n, width) ==
    IF width = 0 THEN <<>>
    ELSE ZeroPad(n \div 10, width - 1) \o <<DigitSeq[(n % 10) + 1]>>

\* date.isoformat()
IsoFormat(date) ==
    ZeroPad(date.year, 4) \o <<"-">> \o ZeroPad(date.month, 2) \o <<"-">> \o ZeroPad(date.day, 2)

\* (datetime.now(UTC) - timedelta(days=days)).date().isoformat()
_iso_date_days_ago(clock, days) ==
    IsoFormat(CivilFromDays((clock - days * SECONDS_PER_DAY) \div SECONDS_PER_DAY))

(***************************************************************************)
(* Provider-B source: models_dev.py                                        *)
(***************************************************************************)
IsDict(x) == x.t \in {"obj", "omap"}

\* provider.get(key) on a provider entry (an "obj")
_flatten_models(payload) ==
    LET RowsOf(provider_id, provider) ==
            LET provider_name == Or(Get(provider, "name"), JStr(provider_id))
                models == Or(Get(provider, "models"), JOMap(<<>>))
                entries == IF models.t = "omap" THEN models.v ELSE <<>>
                dicts == SelectSeq(entries, LAMBDA e : IsObj(e[2]))
            IN ListOf([i \in 1..Len(dicts) |->
                  JObj([provider_id |-> JStr(provider_id),
                        provider_name |-> provider_name,
                        model_id |-> Or(Get(dicts[i][2], "id"), JStr(dicts[i][1])),
                        model |-> dicts[i][2]])])
    IN Flatten(ListOf([i \in 1..Len(payload.v) |->
                  IF IsObj(payload.v[i][2]) THEN RowsOf(payload.v[i][1], payload.v[i][2])
                  ELSE <<>>]))

_is_recent_date(iso_date, cutoff_iso_date) ==
    IF ~Truthy(iso_date) THEN FALSE ELSE StrGeq(iso_date.v, cutoff_iso_date)

RowModel(row) == OrEmptyObj(Get(row, "model"))

\* the first sort key of _rank_recent_models
ReleaseKey(row) == Or(Get(RowModel(row), "release_date"), JStr(<<>>)).v

\* the second sort key: _as_finite(cost.output) or float("inf")
CostKey(row) ==
    LET output == _as_finite_float(Get(OrEmptyObj(Get(RowModel(row), "cost")), "output"))
    IN IF Truthy(output) THEN [inf |-> FALSE, r |-> output.v] ELSE [inf |-> TRUE, r |-> RZero]

CostLess(a, b) == ~a.inf /\ (b.inf \/ RLess(a.r, b.r))

_rank_recent_models(models, cutoff_iso_date) ==
    LET filtered == SelectSeq(models, LAMBDA row :
                        _is_recent_date(Get(RowModel(row), "release_date"), cutoff_iso_date))
        by_date == StableSort(filtered, LAMBDA a, b : StrLess(ReleaseKey(b), ReleaseKey(a)))
    IN StableSort(by_date, LAMBDA a, b : CostLess(CostKey(a), CostKey(b)))

\* the inputs on which the flatten/rank path raises: a payload that is no
\* dict, a truthy release_date that is no string (TypeError on >=), a
\* truthy cost that is no dict (of a recent row, at the second sort)
ModelsDevRaises(payload, cutoff_iso_date) ==
    \/ payload.t # "omap"
    \/ /\ payload.t = "omap"
       /\ LET rows == _flatten_models(payload)
          IN \E i \in 1..Len(rows) :
                LET release_date == Get(RowModel(rows[i]), "release_date")
                    cost == Get(RowModel(rows[i]), "cost")
                IN \/ Truthy(release_date) /\ ~IsStr(release_date)
                   \/ /\ IsStr(release_date)
                      /\ _is_recent_date(release_date, cutoff_iso_date)
                      /\ Truthy(cost) /\ ~IsObj(cost)

(***************************************************************************)
(* HTTP.  One GET has one outcome: a transport error or timeout ("error"), *)
(* a response of a status raise_for_status() rejects ("status"), a 200     *)
(* response whose body is no JSON ("text"), or a 200 response with a JSON  *)
(* body ("json").                                                          *)
(***************************************************************************)
HttpError == [kind |-> "error", code |-> 0, body |-> JNull]
HttpStatus(code) == [kind |-> "status", code |-> code, body |-> JNull]
HttpText == [kind |-> "text", code |-> 200, body |-> JNull]
HttpJson(body) == [kind |-> "json", code |-> 200, body |-> body]

\* client.get, raise_for_status() and response.json() succeed
HttpOk(response) == response.kind = "json"

(***************************************************************************)
(* Provider-A fetch: artificial_analysis.py                                *)
(***************************************************************************)
\* the key falls back to a key built into the program
ApiKeyOfDefault(options, env_key) == Or(Or(Get(options, "api_key"), env_key), JStr(<<"d">>))

\* options.get("api_key") or os.getenv("ARTIFICIALANALYSIS_API_KEY")
ApiKeyOf(options, env_key) == Or(Get(options, "api_key"), env_key)

\* _fetch_models that sends its GET a second time
FetchModelsRequestsRetrying(api_key) == IF Truthy(api_key) THEN 2 ELSE 0

\* the number of GETs _fetch_models sends
FetchModelsRequests(api_key) == IF Truthy(api_key) THEN 1 ELSE 0

\* _fetch_models raises: no key (ValueError), the GET fails, the body is no
\* dict (AttributeError on .get) or its "data" cannot be iterated
FetchModelsRaises(api_key, response) ==
    \/ ~Truthy(api_key)
    \/ ~HttpOk(response)
    \/ ~IsObj(response.body)
    \/ "data" \in DOMAIN response.body.v /\ response.body.v["data"].t # "list"

\* the value _fetch_models returns when it does not raise
_fetch_models(api_key, response, clock) ==
    LET data == IF "data" \in DOMAIN response.body.v THEN response.body.v["data"].v ELSE <<>>
    IN [fetched_at_epoch_seconds |-> JInt(clock),
        status_code |-> JInt(response.code),
        models |-> ListOf([i \in 1..Len(data) |-> _remove_ids(data[i])])]

\* the except branch of both stats functions
EmptyStatsPayload ==
    [fetched_at_epoch_seconds |-> JNull, status_code |-> JNull, models |-> <<>>]

\* get_artificial_analysis_stats whose except branch keeps what the fetch
\* returned when the ranking fails
get_artificial_analysis_stats_partial(options, env_key, response, clock) ==
    LET api_key == ApiKeyOf(options, env_key)
        cutoff_date == _iso_date_days_ago(clock, LOOKBACK_DAYS)
    IN IF FetchModelsRaises(api_key, response) THEN EmptyStatsPayload
       ELSE LET source_payload == _fetch_models(api_key, response, clock)
            IN [fetched_at_epoch_seconds |-> source_payload.fetched_at_epoch_seconds,
                status_code |-> source_payload.status_code,
                models |-> IF RankRaises(source_payload.models, cutoff_date) THEN <<>>
                           ELSE _rank_and_enrich_models(source_payload.models, cutoff_date)]

get_artificial_analysis_stats(options, env_key, response, clock) ==
    LET api_key == ApiKeyOf(options, env_key)
        cutoff_date == _iso_date_days_ago(clock, LOOKBACK_DAYS)
    IN IF FetchModelsRaises(api_key, response) THEN EmptyStatsPayload
       ELSE LET source_payload == _fetch_models(api_key, response, clock)
            IN IF RankRaises(source_payload.models, cutoff_date) THEN EmptyStatsPayload
               ELSE [fetched_at_epoch_seconds |-> source_payload.fetched_at_epoch_seconds,
                     status_code |-> source_payload.status_code,
                     models |-> _rank_and_enrich_models(source_payload.models, cutoff_date)]

(***************************************************************************)
(* Provider-B fetch: models_dev.py                                         *)
(***************************************************************************)
\* _fetch_models_dev raises exactly when the GET fails
_fetch_models_dev(response, clock) ==
    [fetched_at_epoch_seconds |-> JInt(clock),
     status_code |-> JInt(response.code),
     payload |-> response.body]

get_models_dev_stats(response, clock) ==
    LET cutoff_iso_date == _iso_date_days_ago(clock, LOOKBACK_DAYS)
    IN IF ~HttpOk(response) THEN EmptyStatsPayload
       ELSE LET source_payload == _fetch_models_dev(response, clock)
                \* source_payload.get("payload") or {}
                payload == Or(source_payload.payload, JOMap(<<>>))
            IN IF ModelsDevRaises(payload, cutoff_iso_date) THEN EmptyStatsPayload
               ELSE [fetched_at_epoch_seconds |-> source_payload.fetched_at_epoch_seconds,
                     status_code |-> source_payload.status_code,
                     models |-> _rank_recent_models(_flatten_models(payload), cutoff_iso_date)]

(***************************************************************************)
(* Matcher entry points                                                    *)
(***************************************************************************)
\* get_match_models_union calls get_artificial_analysis_stats() without
\* options, so the key is the environment's
NoOptions == EmptyObj

get_match_models_union(env_key, response_a, response_b, clock) ==
    BuildUnion(get_artificial_analysis_stats(NoOptions, env_key, response_a, clock),
               get_models_dev_stats(response_b, clock))

\* int(options.get("max_candidates") or DEFAULT_MAX_CANDIDATES) raises:
\* ValueError on a string that is no integer literal and on NaN,
\* OverflowError on an infinity, TypeError on a list or a dict
MaxCandidatesRaises(options) ==
    LET raw == Get(options, "max_candidates")
    IN /\ Truthy(raw)
       /\ \/ raw.t \in {"nan", "inf", "list", "obj", "omap"}
          \/ raw.t = "str" /\ ~AllDigits(raw.v)

\* its value when it does not raise (int() truncates a float towards zero)
MaxCandidatesOf(options) ==
    LET raw == Get(options, "max_candidates")
    IN IF ~Truthy(raw) THEN DEFAULT_MAX_CANDIDATES
       ELSE CASE raw.t = "int" -> raw.v
              [] raw.t = "bool" -> 1
              [] raw.t = "str" -> ParseDigits(raw.v)
              [] raw.t = "num" ->
                    IF raw.v.n >= 0 THEN raw.v.n \div (raw.v.d * Milli)
                    ELSE -((-raw.v.n) \div (raw.v.d * Milli))

get_match_model_mapping(options, env_key, response_a, response_b, clock) ==
    BuildMapping(get_artificial_analysis_stats(NoOptions, env_key, response_a, clock),
                 get_models_dev_stats(response_b, clock),
                 MaxCandidatesOf(options))

(***************************************************************************)
(* Selection: model_stats.py                                               *)
(***************************************************************************)
CACHE_TTL_SECONDS == 60 * 60 * 24

\* str.find("/"): the index from 0 of the first "/", -1 when there is none
FindSlash(s) ==
    LET hits == {i \in 1..Len(s) : s[i] = "/"}
    IN IF hits = {} THEN -1 ELSE (CHOOSE i \in hits : \A j \in hits : i <= j) - 1

_provider_from_id(model_id) ==
    IF ~IsStr(model_id) THEN JNull
    ELSE LET slash_index == FindSlash(model_id.v)
         IN IF slash_index <= 0 THEN JNull ELSE JStr(SubSeq(model_id.v, 1, slash_index))

\* isinstance(value, (int, float)): bool is a subclass of int
IsIntOrFloat(value) == value.t \in {"int", "num", "real", "nan", "inf", "bool"}

\* int(value) raises ValueError on NaN and OverflowError on an infinity
IntRaises(value) == value.t \in {"nan", "inf"}

\* int(value) of an int, a bool or a finite float (truncation towards zero);
\* "real" is a float of the size of an epoch time, [floor, frac] with
\* 0 < frac < 1 and floor >= 0
IntOf(value) ==
    CASE value.t = "int" -> value.v
      [] value.t = "bool" -> IF value.v THEN 1 ELSE 0
      [] value.t = "real" -> value.v.floor
      [] value.t = "num" ->
            IF value.v.n >= 0 THEN value.v.n \div (value.v.d * Milli)
            ELSE -((-value.v.n) \div (value.v.d * Milli))

JReal(floor, frac) == [t |-> "real", v |-> [floor |-> floor, frac |-> frac]]

\* _is_fresh_cache without the lower bound on the age
_is_fresh_cache_unsigned(fetched_at_epoch_seconds, clock) ==
    IF ~IsIntOrFloat(fetched_at_epoch_seconds) THEN FALSE
    ELSE LET age_seconds == clock - IntOf(fetched_at_epoch_seconds)
         IN age_seconds <= CACHE_TTL_SECONDS

\* _is_fresh_cache with the upper bound exclusive
_is_fresh_cache_exclusive(fetched_at_epoch_seconds, clock) ==
    IF ~IsIntOrFloat(fetched_at_epoch_seconds) THEN FALSE
    ELSE LET age_seconds == clock - IntOf(fetched_at_epoch_seconds)
         IN 0 <= age_seconds /\ age_seconds < CACHE_TTL_SECONDS

\* _is_fresh_cache where it does not raise
_is_fresh_cache(fetched_at_epoch_seconds, clock) ==
    IF ~IsIntOrFloat(fetched_at_epoch_seconds) THEN FALSE
    ELSE LET age_seconds == clock - IntOf(fetched_at_epoch_seconds)
         IN 0 <= age_seconds /\ age_seconds <= CACHE_TTL_SECONDS

\* _filter_models_by_id without the filter
_filter_models_keep_all(models, model_id) == models

_filter_models_by_id(models, model_id) ==
    IF IsNull(model_id) THEN models
    ELSE SelectSeq(models, LAMBDA model : JEq(Get(model, "id"), model_id))

LogoPrefixAA == <<"h","t","t","p","s",":","/","/","a","r","t","i","f","i","c","i","a","l","a","n","a","l","y","s","i","s",".","a","i","/","i","m","g","/","l","o","g","o","s","/">>
LogoSuffixAA == <<"_","s","m","a","l","l",".","s","v","g">>
LogoPrefixModelsDev == <<"h","t","t","p","s",":","/","/","m","o","d","e","l","s",".","d","e","v","/","l","o","g","o","s","/">>
LogoSuffixModelsDev == <<".","s","v","g">>
Unknown == <<"u","n","k","n","o","w","n">>

_build_logo(model, provider) ==
    LET model_creator == OrEmptyObj(Get(model, "model_creator"))
        logo_slug == IF IsObj(model_creator) THEN Get(model_creator, "slug") ELSE JNull
        provider_name == IF Truthy(provider) THEN provider.v ELSE Unknown
    IN IF IsStr(logo_slug) /\ logo_slug.v # <<>>
       THEN JStr(LogoPrefixAA \o logo_slug.v \o LogoSuffixAA)
       ELSE JStr(LogoPrefixModelsDev \o provider_name \o LogoSuffixModelsDev)

\* the keys of the model's records for which key.startswith("median_")
MedianKeys == {"median_time_to_first_answer_token", "median_output_tokens_per_second",
               "median_time_to_first_token_seconds"}

_build_speed(model) == JObj([k \in (DOMAIN model.v) \cap MedianKeys |-> model.v[k]])

\* value if isinstance(value, bool) else None
BoolOrNone(value) == IF value.t = "bool" THEN value ELSE JNull

_map_union_model_to_selected(union_model) ==
    LET provider == _provider_from_id(Get(union_model, "id"))
    IN JObj([id |-> StrOr(Get(union_model, "id"), JNull),
             name |-> StrOr(Get(union_model, "name"), JNull),
             provider |-> provider,
             logo |-> _build_logo(union_model, provider),
             attachment |-> BoolOrNone(Get(union_model, "attachment")),
             reasoning |-> BoolOrNone(Get(union_model, "reasoning")),
             release_date |-> StrOr(Get(union_model, "release_date"), JNull),
             modalities |-> Get(union_model, "modalities"),
             open_weights |-> BoolOrNone(Get(union_model, "open_weights")),
             cost |-> Get(union_model, "cost"),
             context_window |-> Get(union_model, "limit"),
             speed |-> _build_speed(union_model),
             evaluations |-> Get(union_model, "evaluations"),
             scores |-> Get(union_model, "scores"),
             percentiles |-> Get(union_model, "percentiles")])

(***************************************************************************)
(* The selection cache file.  A file is missing, holds text that is no     *)
(* JSON ("garbage": empty, truncated, overwritten) or holds a JSON value.  *)
(***************************************************************************)
FileMissing == [kind |-> "missing", value |-> JNull]
FileGarbage == [kind |-> "garbage", value |-> JNull]
FileJson(value) == [kind |-> "json", value |-> value]

\* json.dumps of a selected payload, as the JSON value of the text
Dumps(payload) ==
    JObj([fetched_at_epoch_seconds |-> payload.fetched_at_epoch_seconds,
          models |-> JList(payload.models)])

\* the file after save_model_stats_selected, by the outcome of the write:
\* "ok"; "refused" (mkdir or open fails, the file is untouched); "torn"
\* (write_text fails after it has truncated the file).  Nothing is raised.
save_model_stats_selected(file, payload, outcome) ==
    CASE outcome = "ok" -> FileJson(Dumps(payload))
      [] outcome = "refused" -> file
      [] outcome = "torn" -> FileGarbage

WriteOutcomes == {"ok", "refused", "torn"}

\* a value is the None (JNull) that _load_model_stats_selected_from_cache returns
IsNone(x) == "t" \in DOMAIN x

\* _load_model_stats_selected_from_cache without the freshness test
_load_model_stats_selected_ignoring_age(file, clock) ==
    IF file.kind # "json" THEN JNull
    ELSE LET payload == file.value
         IN IF ~IsObj(payload) THEN JNull
            ELSE LET models == Get(payload, "models")
                     fetched_at_epoch_seconds == Get(payload, "fetched_at_epoch_seconds")
                 IN IF models.t # "list" THEN JNull
                    ELSE IF ~IsIntOrFloat(fetched_at_epoch_seconds)
                            \/ IntRaises(fetched_at_epoch_seconds) THEN JNull
                    ELSE [fetched_at_epoch_seconds |-> JInt(IntOf(fetched_at_epoch_seconds)),
                          models |-> models.v]

\* None (JNull), or the payload of the cache
_load_model_stats_selected_from_cache(file, clock) ==
    IF file.kind # "json" THEN JNull
    ELSE LET payload == file.value
         IN IF ~IsObj(payload) THEN JNull
            ELSE LET models == Get(payload, "models")
                     fetched_at_epoch_seconds == Get(payload, "fetched_at_epoch_seconds")
                 IN IF models.t # "list" THEN JNull
                    ELSE IF IsIntOrFloat(fetched_at_epoch_seconds)
                            /\ IntRaises(fetched_at_epoch_seconds) THEN JNull
                    ELSE IF ~_is_fresh_cache(fetched_at_epoch_seconds, clock) THEN JNull
                    ELSE [fetched_at_epoch_seconds |-> JInt(IntOf(fetched_at_epoch_seconds)),
                          models |-> models.v]

\* filtered_models of the recomputation: the union rows mapped and filtered
SelectedModels(model_id, match_union) ==
    LET all_models == ListOf([i \in 1..Len(match_union.models) |->
                         _map_union_model_to_selected(match_union.models[i])])
    IN _filter_models_by_id(all_models, model_id)

\* the payload get_model_stats_selected returns; model_id is JNull in list
\* mode, filtered_models is SelectedModels(model_id, get_match_models_union())
\* get_model_stats_selected giving an empty recomputation no timestamp
get_model_stats_selected_unstamped(model_id, file, filtered_models, clock) ==
    LET cached_payload == _load_model_stats_selected_from_cache(file, clock)
    IN IF IsNull(model_id) /\ ~IsNone(cached_payload) THEN cached_payload
       ELSE [fetched_at_epoch_seconds |-> IF filtered_models = <<>> THEN JNull ELSE JInt(clock),
             models |-> filtered_models]

get_model_stats_selected(model_id, file, filtered_models, clock) ==
    LET cached_payload == _load_model_stats_selected_from_cache(file, clock)
    IN IF IsNull(model_id) /\ ~IsNone(cached_payload) THEN cached_payload
       ELSE [fetched_at_epoch_seconds |-> JInt(clock), models |-> filtered_models]

\* the call recomputes: point mode, or list mode without a fresh cache
Recomputes(model_id, file, clock) ==
    ~IsNull(model_id) \/ IsNone(_load_model_stats_selected_from_cache(file, clock))

(***************************************************************************)
(* The data of the model: what the two providers can answer.               *)
(***************************************************************************)
\* a Provider-A model as the API sends it
AAModel(id, slug, name, release_date, pricing, ttfa, tps, evaluations) ==
    JObj([id |-> JStr(id), slug |-> JStr(slug), name |-> JStr(name),
          release_date |-> release_date,
          model_creator |-> JObj([id |-> JStr(<<"c">>), slug |-> JStr(<<"o","p","e","n","a","i">>)]),
          pricing |-> pricing,
          median_time_to_first_answer_token |-> ttfa,
          median_output_tokens_per_second |-> tps,
          evaluations |-> evaluations])

Pricing(blended, input, output) ==
    JObj([price_1m_blended_3_to_1 |-> blended, price_1m_input_tokens |-> input,
          price_1m_output_tokens |-> output])

Evaluations(intelligence, coding, hle) ==
    JObj([artificial_analysis_intelligence_index |-> intelligence,
          artificial_analysis_coding_index |-> coding, hle |-> hle])

Date_2024_12_31 == <<"2","0","2","4","-","1","2","-","3","1">>
Date_2025_01_01 == <<"2","0","2","5","-","0","1","-","0","1">>
Date_2025_08_07 == <<"2","0","2","5","-","0","8","-","0","7">>

Slug_gpt_5_mini == <<"g","p","t","-","5","-","m","i","n","i">>
Slug_gpt_5_nano == <<"g","p","t","-","5","-","n","a","n","o">>
Slug_llama_70b == <<"l","l","a","m","a","-","3","-","1","-","7","0","b">>
Slug_gpt_4 == <<"g","p","t","-","4">>

AA_gpt_5_mini ==
    AAModel(<<"1">>, Slug_gpt_5_mini, <<"G","P","T","-","5"," ","m","i","n","i">>, JStr(Date_2025_08_07),
            Pricing(JNum(500), JNum(250), JNum(2000)), JNum(500), JNum(80000),
            Evaluations(JNum(60000), JNum(50000), JNum(200)))
AA_gpt_5_nano ==
    AAModel(<<"2">>, Slug_gpt_5_nano, <<"G","P","T","-","5"," ","n","a","n","o">>, JStr(Date_2025_08_07),
            Pricing(JNum(250), JNum(250), JNum(500)), JNum(1000), JNum(40000),
            Evaluations(JNum(60000), JNull, JNull))
\* released on the cutoff date of the first day of the model
AA_llama_70b ==
    AAModel(<<"3">>, Slug_llama_70b, <<"L","l","a","m","a"," ","3",".","1"," ","7","0","B">>, JStr(Date_2025_01_01),
            Pricing(JNum(1000), JNum(1000), JNum(1000)), JNum(2000), JNum(20000),
            JNull)
\* a blended price of 0
AA_unpriced ==
    AAModel(<<"4">>, Slug_gpt_4, <<"G","P","T","-","4">>, JStr(Date_2025_08_07),
            Pricing(JNum(0), JNum(250), JNum(2000)), JNum(500), JNum(80000),
            Evaluations(JNum(60000), JNum(50000), JNull))
\* a release date that is a number: the recency test raises TypeError
AA_bad_date ==
    AAModel(<<"5">>, Slug_gpt_4, <<"G","P","T","-","4">>, JInt(20250807),
            Pricing(JNum(500), JNum(250), JNum(2000)), JNum(500), JNum(80000),
            JNull)

\* the JSON body {"data": [...]} of Provider-A
BodyA(models) == JObj([data |-> JList(models)])

\* a models.dev model
MDModel(id, name, release_date, cost) ==
    JObj([id |-> JStr(id), name |-> JStr(name), release_date |-> release_date,
          reasoning |-> JBool(TRUE), cost |-> cost])

Id_openai_gpt_5_mini == <<"o","p","e","n","a","i","/","g","p","t","-","5","-","m","i","n","i">>
Id_openai_gpt_5_nano == <<"o","p","e","n","a","i","/","g","p","t","-","5","-","n","a","n","o">>
Id_llama_70b == <<"m","e","t","a","-","l","l","a","m","a","/","l","l","a","m","a","-","3",".","1","-","7","0","b","-","i","n","s","t","r","u","c","t">>
Id_llama_8b == <<"m","e","t","a","-","l","l","a","m","a","/","l","l","a","m","a","-","3",".","1","-","8","b","-","i","n","s","t","r","u","c","t">>
Id_gpt_5_mini == <<"g","p","t","-","5","-","m","i","n","i">>
Id_absent == <<"o","p","e","n","a","i","/","g","p","t","-","4">>

MD_gpt_5_mini ==
    MDModel(Id_openai_gpt_5_mini, <<"G","P","T","-","5"," ","M","i","n","i">>, JStr(Date_2025_08_07),
            JObj([output |-> JNum(2000)]))
MD_gpt_5_nano ==
    MDModel(Id_openai_gpt_5_nano, <<"G","P","T","-","5"," ","N","a","n","o">>, JStr(Date_2025_08_07),
            JObj([output |-> JNum(500)]))
MD_llama_70b ==
    MDModel(Id_llama_70b, <<"L","l","a","m","a"," ","3",".","1"," ","7","0","B"," ","I","n","s","t","r","u","c","t">>, JStr(Date_2025_08_07),
            JObj([output |-> JNum(1000)]))
MD_llama_8b ==
    MDModel(Id_llama_8b, <<"L","l","a","m","a"," ","3",".","1"," ","8","B"," ","I","n","s","t","r","u","c","t">>, JStr(Date_2025_08_07),
            JNull)
MD_direct_gpt_5_mini ==
    MDModel(Id_gpt_5_mini, <<"G","P","T","-","5"," ","m","i","n","i">>, JStr(Date_2025_08_07),
            JObj([output |-> JNum(2000)]))
\* a release date that is a number
MD_bad_date ==
    MDModel(Id_openai_gpt_5_mini, <<"G","P","T","-","5"," ","M","i","n","i">>, JInt(20250807), JNull)

\* a provider entry of the models.dev tree
MDProvider(name, models) == JObj([name |-> JStr(name), models |-> JOMap(models)])

OpenRouterName == <<"O","p","e","n","R","o","u","t","e","r">>
OpenAI == <<"o","p","e","n","a","i">>

BodyB_full ==
    JOMap(<< <<PROVIDER_FILTER,
               MDProvider(OpenRouterName,
                          << <<Id_llama_8b, MD_llama_8b>>,
                             <<Id_openai_gpt_5_mini, MD_gpt_5_mini>>,
                             <<Id_llama_70b, MD_llama_70b>>,
                             <<Id_openai_gpt_5_nano, MD_gpt_5_nano>> >>)>>,
             <<OpenAI, MDProvider(OpenAI, << <<Id_gpt_5_mini, MD_direct_gpt_5_mini>> >>)>> >>)
BodyB_small ==
    JOMap(<< <<PROVIDER_FILTER,
               MDProvider(OpenRouterName, << <<Id_openai_gpt_5_mini, MD_gpt_5_mini>> >>)>> >>)
BodyB_bad ==
    JOMap(<< <<PROVIDER_FILTER,
               MDProvider(OpenRouterName, << <<Id_openai_gpt_5_mini, MD_bad_date>> >>)>> >>)

\* what a GET to Provider-A can give: the first five are failures (a
\* transport error or timeout, a rejected status, a body that is no JSON, a
\* "data" that is no list, a model whose release date is no string)
ResponsesA ==
    << HttpError, HttpStatus(500), HttpText,
       HttpJson(JObj([data |-> JNull])),
       HttpJson(BodyA(<<AA_gpt_5_mini, AA_bad_date>>)),
       HttpJson(BodyA(<<AA_unpriced, AA_gpt_5_nano, AA_gpt_5_mini>>)),
       HttpJson(BodyA(<<AA_llama_70b, AA_unpriced, AA_gpt_5_nano, AA_gpt_5_mini>>)) >>

\* what a GET to Provider-B can give: the first four are failures (a
\* transport error or timeout, a body that is no JSON, a body that is a
\* list, a model whose release date is no string)
ResponsesB ==
    << HttpError, HttpText,
       HttpJson(JList(<<JNull>>)),
       HttpJson(BodyB_bad),
       HttpJson(BodyB_small), HttpJson(BodyB_full) >>

(***************************************************************************)
(* The inputs of the calls                                                 *)
(***************************************************************************)
\* options of get_artificial_analysis_stats: none, an empty key, a key
OptionsA ==
    << NoOptions, JObj([api_key |-> JStr(<<>>)]), JObj([api_key |-> JStr(<<"o">>)]) >>

\* options of get_match_model_mapping: none, then max_candidates 0, 1, -1,
\* "2" and "abc"
MappingOptions ==
    << NoOptions,
       JObj([max_candidates |-> JInt(0)]),
       JObj([max_candidates |-> JInt(1)]),
       JObj([max_candidates |-> JInt(-1)]),
       JObj([max_candidates |-> JStr(<<"2">>)]),
       JObj([max_candidates |-> JStr(<<"a","b","c">>)]) >>

\* options of get_model_stats_selected: list mode, then the id of a model
\* both providers know and an id no provider knows
SelectedOptions ==
    << NoOptions, JObj([id |-> JStr(Id_openai_gpt_5_mini)]), JObj([id |-> JStr(Id_absent)]) >>

\* ARTIFICIALANALYSIS_API_KEY: unset, or set
EnvKeys == << JNull, JStr(<<"e">>) >>

\* the clock runs from 2026-01-01T00:00:00Z; the times a call can be made at
\* are that instant, the instant CACHE_TTL_SECONDS later and the MaxSkew
\* seconds after it
MaxSkew == 1
T0 == 20454 * SECONDS_PER_DAY
Times ==
    ListOf([k \in 1..(MaxSkew + 2) |->
               IF k = 1 THEN T0 ELSE T0 + CACHE_TTL_SECONDS + (k - 2)])

\* the response of the GET number i of the catalogue; 0 is "no GET was sent"
ResponseA(i) == IF i = 0 THEN HttpError ELSE ResponsesA[i]
ResponseB(j) == IF j = 0 THEN HttpError ELSE ResponsesB[j]

\* _fetch_models_dev answered from a file, without a GET
ModelsDevRequestsCached == 1 - 1

\* models.dev needs no key: _fetch_models_dev sends its GET unconditionally
ModelsDevRequests == 1

\* the reads of the cache file by get_model_stats_selected: list mode only
CacheReads(model_id) == IF IsNull(model_id) THEN 1 ELSE 0

\* a selection cache file of the shape save_model_stats_selected writes
CacheOf(stamp, models) ==
    FileJson(JObj([fetched_at_epoch_seconds |-> stamp, models |-> JList(models)]))

CachedModels == << JObj([id |-> JStr(<<"c","a","c","h","e","d">>)]) >>

\* the cache files a first call can find: none, no JSON, a JSON list, a
\* "models" that is no list, no timestamp, a timestamp that is a string, NaN,
\* a float, and the integer timestamps of Times
InitialFiles ==
    << FileMissing, FileGarbage,
       FileJson(JList(<<>>)),
       FileJson(JObj([fetched_at_epoch_seconds |-> JInt(T0), models |-> JNull])),
       FileJson(JObj([models |-> JList(CachedModels)])),
       CacheOf(JStr(<<"1","7">>), CachedModels),
       CacheOf(JNaN, CachedModels),
       CacheOf(JReal(T0, 500), CachedModels) >>
    \o ListOf([c \in 1..Len(Times) |-> CacheOf(JInt(Times[c]), CachedModels)])
(***************************************************************************)
(* The results of the entry points on the inputs above, computed once: the *)
(* value at [o][e][i + 1][j][c] is the call with options number o, the     *)
(* environment key number e, the responses number i and j and the clock    *)
(* at Times[c].                                                            *)
(***************************************************************************)
ArtificialAnalysisStatsOn ==
    ListOf([o \in 1..Len(OptionsA) |->
    ListOf([e \in 1..Len(EnvKeys) |->
    ListOf([i \in 1..(Len(ResponsesA) + 1) |->
    ListOf([c \in 1..Len(Times) |->
        get_artificial_analysis_stats(OptionsA[o], EnvKeys[e], ResponseA(i - 1), Times[c])])])])])

ModelsDevStatsOn ==
    ListOf([j \in 1..Len(ResponsesB) |->
    ListOf([c \in 1..Len(Times) |->
        get_models_dev_stats(ResponsesB[j], Times[c])])])

MatchModelsUnionOn ==
    ListOf([e \in 1..Len(EnvKeys) |->
    ListOf([i \in 1..(Len(ResponsesA) + 1) |->
    ListOf([j \in 1..Len(ResponsesB) |->
    ListOf([c \in 1..Len(Times) |->
        get_match_models_union(EnvKeys[e], ResponseA(i - 1), ResponsesB[j], Times[c])])])])])

MatchModelMappingOn ==
    ListOf([o \in 1..Len(MappingOptions) |->
    ListOf([e \in 1..Len(EnvKeys) |->
    ListOf([i \in 1..(Len(ResponsesA) + 1) |->
    ListOf([j \in 1..Len(ResponsesB) |->
    ListOf([c \in 1..Len(Times) |->
        IF MaxCandidatesRaises(MappingOptions[o]) THEN <<>>
        ELSE get_match_model_mapping(MappingOptions[o], EnvKeys[e], ResponseA(i - 1),
                                     ResponsesB[j], Times[c])])])])])])

SelectedModelsOn ==
    ListOf([o \in 1..Len(SelectedOptions) |->
    ListOf([e \in 1..Len(EnvKeys) |->
    ListOf([i \in 1..(Len(ResponsesA) + 1) |->
    ListOf([j \in 1..Len(ResponsesB) |->
    ListOf([c \in 1..Len(Times) |->
        SelectedModels(Get(SelectedOptions[o], "id"), MatchModelsUnionOn[e][i][j][c])])])])])])

(***************************************************************************)
(* The state.                                                              *)
(*   now         the system clock, in epoch seconds                        *)
(*   environ     the value of ARTIFICIALANALYSIS_API_KEY                   *)
(*   cache_file  the selection cache file (DEFAULT_OUTPUT_PATH)            *)
(*   call        the call that has just returned or raised, with what it   *)
(*               did; Idle between two calls                               *)
(*   served      the time of the latest successful call of each of the two *)
(*               raw-source entry points (<<>> when there is none)         *)
(*   population  a list of Provider-A models handed to the scorer          *)
(*   ranking     what the scorer made of population                        *)
(*   matching    a models.dev listing handed to the matcher with           *)
(*               population, and what the matcher made of the two          *)
(*   race        the text of the selection cache file piece by piece, the  *)
(*               callers that read and write it at the same time, and the  *)
(*               payloads handed to save_model_stats_selected              *)
(***************************************************************************)
VARIABLES now, environ, cache_file, call, served, population, ranking, matching, race

vars == <<now, environ, cache_file, call, served, population, ranking, matching, race>>

Idle ==
    [op |-> "idle", options |-> 0, response_a |-> 0, response_b |-> 0,
     requests_a |-> 0, requests_b |-> 0, raised |-> FALSE, result |-> <<>>,
     file_before |-> FileMissing, reads |-> 0, write |-> "none", written |-> <<>>,
     prior |-> <<>>]

NeverServed == [artificial_analysis |-> <<>>, models_dev |-> <<>>]

NotRanked == [done |-> FALSE, raised |-> FALSE, models |-> <<>>]

NotMatched ==
    [listing |-> <<>>, op |-> "none", options |-> 0, before |-> <<>>, result |-> <<>>]

NoRace == [file |-> <<>>, callers |-> <<>>, saved |-> {}]

EnvIndex == CHOOSE e \in 1..Len(EnvKeys) : JEq(EnvKeys[e], environ)
ClockIndex == CHOOSE c \in 1..Len(Times) : Times[c] = now

Init ==
    /\ \E c \in 1..Len(Times) : now = Times[c]
    /\ \E e \in 1..Len(EnvKeys) : environ = EnvKeys[e]
    /\ \E f \in 1..Len(InitialFiles) : cache_file = InitialFiles[f]
    /\ call = Idle
    /\ served = NeverServed
    /\ population = <<>>
    /\ ranking = NotRanked
    /\ matching = NotMatched
    /\ race = NoRace

\* get_artificial_analysis_stats(options) with options number o, answered by
\* response number i
ArtificialAnalysisStats(o, i) ==
    LET api_key == ApiKeyOf(OptionsA[o], environ)
    IN /\ call.op = "idle"
       /\ (i = 0) <=> (FetchModelsRequests(api_key) = 0)
       /\ call' = [Idle EXCEPT !.op = "get_artificial_analysis_stats",
                               !.options = o,
                               !.response_a = i,
                               !.requests_a = FetchModelsRequests(api_key),
                               !.result = ArtificialAnalysisStatsOn[o][EnvIndex][i + 1][ClockIndex],
                               !.file_before = cache_file,
                               !.prior = served.artificial_analysis]
       /\ UNCHANGED <<now, environ, cache_file, population, ranking, matching, race>>

\* get_models_dev_stats() answered by response number j
ModelsDevStats(j) ==
    /\ call.op = "idle"
    /\ call' = [Idle EXCEPT !.op = "get_models_dev_stats",
                            !.response_b = j,
                            !.requests_b = ModelsDevRequests,
                            !.result = ModelsDevStatsOn[j][ClockIndex],
                            !.file_before = cache_file,
                            !.prior = served.models_dev]
    /\ UNCHANGED <<now, environ, cache_file, population, ranking, matching, race>>

CallArtificialAnalysisStats ==
    \E o \in 1..Len(OptionsA), i \in 0..Len(ResponsesA) :
        ArtificialAnalysisStats(o, i) /\ UNCHANGED served

CallModelsDevStats ==
    \E j \in 1..Len(ResponsesB) : ModelsDevStats(j) /\ UNCHANGED served

\* get_match_models_union(): both providers are asked, Provider-A with the
\* key of the environment
CallMatchModelsUnion ==
    \E i \in 0..Len(ResponsesA), j \in 1..Len(ResponsesB) :
        LET api_key == ApiKeyOf(NoOptions, environ)
        IN /\ call.op = "idle"
           /\ (i = 0) <=> (FetchModelsRequests(api_key) = 0)
           /\ call' = [Idle EXCEPT !.op = "get_match_models_union",
                                   !.response_a = i,
                                   !.response_b = j,
                                   !.requests_a = FetchModelsRequests(api_key),
                                   !.requests_b = ModelsDevRequests,
                                   !.result = MatchModelsUnionOn[EnvIndex][i + 1][j][ClockIndex],
                                   !.file_before = cache_file]
           /\ UNCHANGED <<now, environ, cache_file, served, population, ranking, matching, race>>

\* get_match_model_mapping(options): int(max_candidates) is evaluated before
\* the try, so the call raises before any request is sent
CallMatchModelMapping ==
    \E o \in 1..Len(MappingOptions), i \in 0..Len(ResponsesA), j \in 0..Len(ResponsesB) :
        LET api_key == ApiKeyOf(NoOptions, environ)
            raises == MaxCandidatesRaises(MappingOptions[o])
        IN /\ call.op = "idle"
           /\ IF raises THEN i = 0 /\ j = 0
              ELSE /\ (i = 0) <=> (FetchModelsRequests(api_key) = 0)
                   /\ j > 0
           /\ call' = [Idle EXCEPT !.op = "get_match_model_mapping",
                                   !.options = o,
                                   !.response_a = i,
                                   !.response_b = j,
                                   !.requests_a = IF raises THEN 0 ELSE FetchModelsRequests(api_key),
                                   !.requests_b = IF raises THEN 0 ELSE ModelsDevRequests,
                                   !.raised = raises,
                                   !.result = MatchModelMappingOn[o][EnvIndex][i + 1][IF raises THEN 1 ELSE j][ClockIndex],
                                   !.file_before = cache_file]
           /\ UNCHANGED <<now, environ, cache_file, served, population, ranking, matching, race>>

\* what a call of get_model_stats_selected did, from the payload it returns
ModelStatsSelectedCall(o, i, j, requests_a, requests_b, reads, saves, outcome, payload) ==
    [Idle EXCEPT !.op = "get_model_stats_selected",
                 !.options = o,
                 !.response_a = i,
                 !.response_b = j,
                 !.requests_a = requests_a,
                 !.requests_b = requests_b,
                 !.result = payload,
                 !.file_before = cache_file,
                 !.reads = reads,
                 !.write = outcome,
                 !.written = IF saves THEN payload ELSE <<>>]

\* get_model_stats_selected(options): served from the cache, or recomputed
\* from both providers and, in list mode, saved with the given outcome of
\* the write
CallModelStatsSelected ==
    \E o \in 1..Len(SelectedOptions), i \in 0..Len(ResponsesA), j \in 0..Len(ResponsesB),
       outcome \in WriteOutcomes \cup {"none"} :
        LET model_id == Get(SelectedOptions[o], "id")
            api_key == ApiKeyOf(NoOptions, environ)
            recomputes == Recomputes(model_id, cache_file, now)
            saves == recomputes /\ IsNull(model_id)
        IN /\ call.op = "idle"
           /\ IF recomputes
              THEN /\ (i = 0) <=> (FetchModelsRequests(api_key) = 0)
                   /\ j > 0
              ELSE i = 0 /\ j = 0
           /\ (outcome = "none") <=> ~saves
           /\ call' = ModelStatsSelectedCall(o, i, j,
                          IF recomputes THEN FetchModelsRequests(api_key) ELSE 0,
                          IF recomputes THEN ModelsDevRequests ELSE 0,
                          CacheReads(model_id), saves, outcome,
                          get_model_stats_selected(model_id, cache_file,
                              SelectedModelsOn[o][EnvIndex][i + 1][IF j = 0 THEN 1 ELSE j][ClockIndex],
                              now))
           /\ cache_file' = IF saves
                            THEN save_model_stats_selected(cache_file, call'.written, outcome)
                            ELSE cache_file
           /\ UNCHANGED <<now, environ, served, population, ranking, matching, race>>

\* the caller takes the result (or the exception) of the call
Return ==
    /\ call.op # "idle"
    /\ call' = Idle
    /\ UNCHANGED <<now, environ, cache_file, served, population, ranking, matching, race>>

\* time passes, or the system clock is set (also backwards)
ClockChanges ==
    /\ call.op = "idle"
    /\ \E c \in 1..Len(Times) : Times[c] # now /\ now' = Times[c]
    /\ UNCHANGED <<environ, cache_file, call, served, population, ranking, matching, race>>

\* ARTIFICIALANALYSIS_API_KEY is set or unset
EnvChanges ==
    /\ call.op = "idle"
    /\ \E e \in 1..Len(EnvKeys) : ~JEq(EnvKeys[e], environ) /\ environ' = EnvKeys[e]
    /\ UNCHANGED <<now, cache_file, call, served, population, ranking, matching, race>>

Next ==
    \/ CallArtificialAnalysisStats
    \/ CallModelsDevStats
    \/ CallMatchModelsUnion
    \/ CallMatchModelMapping
    \/ CallModelStatsSelected
    \/ Return
    \/ ClockChanges
    \/ EnvChanges

Spec == Init /\ [][Next]_vars

(***************************************************************************)
(* The two raw-source entry points called again and again: the same calls, *)
(* with the time of the latest successful call of each kept in served.     *)
(***************************************************************************)
InitRaw ==
    /\ \E c \in 1..Len(Times) : now = Times[c]
    /\ \E e \in 1..Len(EnvKeys) : environ = EnvKeys[e]
    /\ cache_file = FileMissing
    /\ call = Idle
    /\ served = NeverServed
    /\ population = <<>>
    /\ ranking = NotRanked
    /\ matching = NotMatched
    /\ race = NoRace

\* the call returned a payload of the provider, not the empty payload
Succeeded(result) == ~IsNull(result.fetched_at_epoch_seconds)

RepeatArtificialAnalysisStats ==
    \E o \in 1..Len(OptionsA), i \in 0..Len(ResponsesA) :
        /\ ArtificialAnalysisStats(o, i)
        /\ served' = [served EXCEPT !.artificial_analysis =
                         IF Succeeded(call'.result) THEN <<now>> ELSE @]

RepeatModelsDevStats ==
    \E j \in 1..Len(ResponsesB) :
        /\ ModelsDevStats(j)
        /\ served' = [served EXCEPT !.models_dev =
                         IF Succeeded(call'.result) THEN <<now>> ELSE @]

NextRaw ==
    \/ RepeatArtificialAnalysisStats
    \/ RepeatModelsDevStats
    \/ Return
    \/ ClockChanges
    \/ EnvChanges

SpecRaw == InitRaw /\ [][NextRaw]_vars

(***************************************************************************)
(* The scorer on its own: _rank_and_enrich_models applied to a list of     *)
(* Provider-A models.  A model of the list is the model below with at most *)
(* MaxDeviations of its six filtered fields replaced, alone or next to     *)
(* that model.                                                             *)
(***************************************************************************)
MaxDeviations == 1

\* release dates: after the cutoff, on the first cutoff of the model, before
\* it, empty, missing, and a number (on which the comparison raises)
DateValues ==
    << JStr(Date_2025_08_07), JStr(Date_2025_01_01), JStr(Date_2024_12_31),
       JStr(<<>>), JNull, JInt(20250807) >>

\* prices and speeds: 0.5, then 2, "2" and true, then the values that are
\* not strictly positive finite: none, 0, -0.5, NaN, an infinity, "abc"
NumberValues ==
    << JNum(500), JInt(2), JStr(<<"2">>), JBool(TRUE),
       JNull, JNum(0), JNum(-500), JNaN, JInf, JStr(<<"a","b","c">>) >>

\* the model whose six filtered fields are the values number d, b, i, o, t, s
Variant(slug, d, b, i, o, t, s) ==
    AAModel(<<"0">>, slug, slug, DateValues[d],
            Pricing(NumberValues[b], NumberValues[i], NumberValues[o]),
            NumberValues[t], NumberValues[s],
            Evaluations(JNum(60000), JNum(50000), JNull))

Deviations(d, b, i, o, t, s) ==
    Cardinality({k \in 1..6 : <<d, b, i, o, t, s>>[k] # 1})

\* the models the scorer ranks: two with the same indexes, prices and speeds
\* (equal overall scores), then four without evaluations, whose overall
\* score is that of price and speed alone: positive, 0.0 (price 1, a first
\* token after 1 s, 1 token per second), and twice the same negative score
Ranked(slug, blended, ttfa, tps, evaluations) ==
    AAModel(<<"0">>, slug, slug, JStr(Date_2025_08_07),
            Pricing(JNum(blended), JNum(1000), JNum(1000)), JNum(ttfa), JNum(tps),
            evaluations)

RankedModels ==
    << Ranked(<<"a">>, 500, 500, 2000, Evaluations(JNum(60000), JNum(50000), JNum(200))),
       Ranked(<<"b">>, 500, 500, 2000, Evaluations(JNum(60000), JNum(50000), JNum(200))),
       Ranked(<<"p">>, 500, 1000, 1000, JNull),
       Ranked(<<"z">>, 1000, 1000, 1000, JNull),
       Ranked(<<"m">>, 2000, 1000, 1000, JNull),
       Ranked(<<"n">>, 2000, 1000, 1000, JNull) >>

\* the lists of at most MaxRanked different models of RankedModels, in any
\* order
MaxRanked == 3

RankedLists ==
    {q \in UNION {[1..n -> 1..Len(RankedModels)] : n \in 1..MaxRanked} :
        \A j, k \in DOMAIN q : j # k => q[j] # q[k]}

InitScore ==
    /\ \E c \in 1..Len(Times) : now = Times[c]
    /\ environ = JNull
    /\ cache_file = FileMissing
    /\ call = Idle
    /\ served = NeverServed
    /\ ranking = NotRanked
    /\ matching = NotMatched
    /\ race = NoRace
    /\ \/ \E d \in 1..Len(DateValues), b, i, o, t, s \in 1..Len(NumberValues), place \in 0..2 :
             /\ Deviations(d, b, i, o, t, s) <= MaxDeviations
             /\ population =
                   CASE place = 0 -> << Variant(<<"v">>, d, b, i, o, t, s) >>
                     [] place = 1 -> << Variant(<<"u">>, 1, 1, 1, 1, 1, 1),
                                        Variant(<<"v">>, d, b, i, o, t, s) >>
                     [] place = 2 -> << Variant(<<"v">>, d, b, i, o, t, s),
                                        Variant(<<"u">>, 1, 1, 1, 1, 1, 1) >>
       \/ \E q \in RankedLists :
             population = ListOf([k \in 1..Len(q) |-> RankedModels[q[k]]])

\* get_artificial_analysis_stats hands the fetched models to the scorer with
\* the cutoff date of the day
RankAndEnrichModels ==
    LET cutoff_date == _iso_date_days_ago(now, LOOKBACK_DAYS)
        raises == RankRaises(population, cutoff_date)
    IN /\ ~ranking.done
       /\ ranking' = [done |-> TRUE,
                      raised |-> raises,
                      models |-> IF raises THEN <<>>
                                 ELSE _rank_and_enrich_models(population, cutoff_date)]
       /\ UNCHANGED <<now, environ, cache_file, call, served, population, matching, race>>

NextScore == RankAndEnrichModels

SpecScore == InitScore /\ [][NextScore]_vars

\* ---------------------------------------------------------------------
\* The overall score as a function of the four component scores: the scores
\* dict _compute_scores builds, on component scores of either sign, zero and
\* None, in thousandths.
ComponentScores ==
    {JNull, JRat(Rat(-1500, 1)), JRat(RZero), JRat(Rat(700, 1)), JRat(Rat(2000, 1))}

InitOverall ==
    /\ now = Times[1]
    /\ environ = JNull
    /\ cache_file = FileMissing
    /\ call = Idle
    /\ served = NeverServed
    /\ ranking = NotRanked
    /\ matching = NotMatched
    /\ race = NoRace
    /\ \E intelligence_score, benchmark_bias_score, price_score, speed_score \in ComponentScores :
          population = <<intelligence_score, benchmark_bias_score, price_score, speed_score>>

\* scores = {"overall_score": _weighted_mean([...]), ...} of _compute_scores
ComputeOverall ==
    /\ ~ranking.done
    /\ ranking' = [done |-> TRUE, raised |-> FALSE,
                   models |-> << ScoresOf(population[1], population[2],
                                          population[3], population[4]) >>]
    /\ UNCHANGED <<now, environ, cache_file, call, served, population, matching, race>>

NextOverall == ComputeOverall

SpecOverall == InitOverall /\ [][NextOverall]_vars

(***************************************************************************)
(* The matcher on its own: the two views built from a list of Provider-A   *)
(* models (population) and a list of flattened models.dev rows (the        *)
(* listing), as get_match_model_mapping and get_match_models_union build   *)
(* them from the two stats payloads.                                       *)
(***************************************************************************)
\* a Provider-A model as the matcher receives it (the ids removed)
Source(slug, name) ==
    JObj([slug |-> JStr(slug), name |-> name, release_date |-> JStr(Date_2025_01_01),
          scores |-> JObj([overall_score |-> JNum(1000)])])

\* the source models: gpt-5-mini and a variant of it, a model with a
\* parameter scale, gpt-4, and a model without slug and name
SourceModels ==
    << Source(Slug_gpt_5_mini, JStr(<<"G","P","T","-","5"," ","m","i","n","i">>)),
       Source(<<"g","p","t","-","5","-","m","i","n","i","-","h","i","g","h">>, JStr(<<"G","P","T","-","5"," ","m","i","n","i"," ","(","h","i","g","h",")">>)),
       Source(Slug_llama_70b, JStr(<<"L","l","a","m","a"," ","3",".","1"," ","7","0","B">>)),
       Source(Slug_gpt_4, JStr(<<"G","P","T","-","4">>)),
       Source(<<>>, JNull) >>

\* a flattened models.dev row (_flatten_models)
Row(provider_id, model_id, name) ==
    JObj([provider_id |-> JStr(provider_id), provider_name |-> JStr(provider_id),
          model_id |-> JStr(model_id),
          model |-> JObj([id |-> JStr(model_id), name |-> name,
                          release_date |-> JStr(Date_2025_08_07),
                          reasoning |-> JBool(TRUE)])])

\* the rows: a row whose name alone starts like the slug, a row whose first
\* token is another although the rest agrees, gpt-4 under an empty name,
\* the two llama rows of 8b and 70b, a row whose scale is in its name only,
\* gpt-5-mini listed twice under two vendors and once by another provider
ListingRows ==
    << Row(PROVIDER_FILTER, <<"v","e","n","d","o","r","/","f","i","v","e","-","m","i","n","i">>, JStr(<<"G","P","T"," ","5"," ","M","i","n","i">>)),
       Row(PROVIDER_FILTER, <<"o","p","e","n","a","i","/","g","-","5","-","m","i","n","i">>, JStr(<<"G"," ","5"," ","M","i","n","i">>)),
       Row(PROVIDER_FILTER, Id_absent, JStr(<<>>)),
       Row(PROVIDER_FILTER, Id_llama_8b, JStr(<<"L","l","a","m","a"," ","3",".","1"," ","8","B"," ","I","n","s","t","r","u","c","t">>)),
       Row(PROVIDER_FILTER, Id_llama_70b, JStr(<<"L","l","a","m","a"," ","3",".","1"," ","7","0","B"," ","I","n","s","t","r","u","c","t">>)),
       Row(PROVIDER_FILTER, <<"m","e","t","a","-","l","l","a","m","a","/","l","l","a","m","a","-","3",".","1","-","i","n","s","t","r","u","c","t">>, JStr(<<"L","l","a","m","a"," ","3",".","1"," ","8","B"," ","I","n","s","t","r","u","c","t">>)),
       Row(PROVIDER_FILTER, Id_openai_gpt_5_mini, JStr(<<"G","P","T","-","5"," ","M","i","n","i">>)),
       Row(PROVIDER_FILTER, <<"a","a","a","/","g","p","t","-","5","-","m","i","n","i">>, JStr(<<"G","P","T","-","5"," ","M","i","n","i">>)),
       Row(OpenAI, Id_gpt_5_mini, JStr(<<"G","P","T","-","5"," ","M","i","n","i">>)) >>

\* at most MaxSources source models and at most MaxListing rows are taken,
\* in the order above
MaxSources == 3
MaxListing == 2

\* the members of the catalogue q that picked names, in the order of q
Picked(q, picked) == SelectSeq(q, LAMBDA x : \E i \in picked : q[i] = x)

InitMatch ==
    /\ now = Times[1]
    /\ environ = JNull
    /\ cache_file = FileMissing
    /\ call = Idle
    /\ served = NeverServed
    /\ ranking = NotRanked
    /\ race = NoRace
    /\ \E picked \in SUBSET (1..Len(SourceModels)) :
          /\ Cardinality(picked) <= MaxSources
          /\ population = Picked(SourceModels, picked)
    /\ \E picked \in SUBSET (1..Len(ListingRows)) :
          /\ Cardinality(picked) <= MaxListing
          /\ matching = [NotMatched EXCEPT !.listing = Picked(ListingRows, picked)]

\* what the two fetchers return when they succeed
StatsOf(models) ==
    [fetched_at_epoch_seconds |-> JInt(now), status_code |-> JInt(200), models |-> models]

\* the options of the mapping the matcher is run with: none, then a
\* max_candidates of 0, 1 and -1
MatchOptions == 1..4

\* the entries the loop has built (`before`) and the payload returned after
\* the void pass (`result`)
MappingMatched(o, scoped_models_dev_models, before) ==
    [matching EXCEPT
        !.op = "get_match_model_mapping",
        !.options = o,
        !.before = before,
        !.result = MappingPayload(StatsOf(population), StatsOf(matching.listing),
                                  Len(scoped_models_dev_models),
                                  MaxCandidatesOf(MappingOptions[o]),
                                  _apply_maxmin_half_void(before))]

\* get_match_model_mapping(options) from the int() of max_candidates on, on
\* the two payloads
MatchModelMapping ==
    \E o \in MatchOptions :
        /\ matching.op = "none"
        /\ ~MaxCandidatesRaises(MappingOptions[o])
        /\ matching' =
              MappingMatched(o, _scope_to_openrouter_models(matching.listing),
                             MappingRows(population,
                                         _scope_to_openrouter_models(matching.listing),
                                         MaxCandidatesOf(MappingOptions[o])))
        /\ UNCHANGED <<now, environ, cache_file, call, served, population, ranking, race>>

\* the rows the loop has built (`before`) and the payload returned after the
\* void pass (`result`)
UnionMatched(scoped_models_dev_models, before) ==
    [matching EXCEPT
        !.op = "get_match_models_union",
        !.before = before,
        !.result = UnionVoided(StatsOf(population), StatsOf(matching.listing),
                               Len(scoped_models_dev_models),
                               _apply_maxmin_half_void(before))]

\* get_match_models_union() on the two payloads
MatchModelsUnion ==
    /\ matching.op = "none"
    /\ matching' =
          UnionMatched(_scope_to_openrouter_models(matching.listing),
                       UnionRows(population, _scope_to_openrouter_models(matching.listing)))
    /\ UNCHANGED <<now, environ, cache_file, call, served, population, ranking, race>>

NextMatch ==
    \/ MatchModelMapping
    \/ MatchModelsUnion

SpecMatch == InitMatch /\ [][NextMatch]_vars

\* ---------------------------------------------------------------------
\* Two terms of _score_candidate as functions of the source slug, the
\* candidate id and the candidate name.
TermSlugs ==
    << <<"g","p","t","-","5","-","m","i","n","i">>,
       <<"c","l","a","u","d","e","-","s","o","n","n","e","t","-","4">>,
       <<"g","p","t","-","4">>,
       <<>>,
       <<"g","p","t","-","5","-","m","i","n","i","-","h","i","g","h">> >>

TermIds ==
    << <<"o","p","e","n","a","i","/","g","p","t","-","5","-","m","i","n","i">>,
       <<"o","p","e","n","a","i","/","g","p","t","-","5","-","m","i","n","i","-","h","i","g","h">>,
       <<"a","n","t","h","r","o","p","i","c","/","c","l","a","u","d","e","-","4","-","s","o","n","n","e","t">>,
       <<"o","p","e","n","a","i","/","g","p","t","-","4">>,
       <<"x","/","m","i","n","i">> >>

TermNames ==
    << <<"G","P","T","-","5"," ","M","i","n","i">>,
       <<>>,
       <<"C","l","a","u","d","e"," ","4"," ","S","o","n","n","e","t">>,
       <<"G","P","T","-","4"," ","T","u","r","b","o"," ","H","i","g","h">> >>

\* population holds the three arguments, matching the term computed on them
InitTerm ==
    /\ now = Times[1]
    /\ environ = JNull
    /\ cache_file = FileMissing
    /\ call = Idle
    /\ served = NeverServed
    /\ ranking = NotRanked
    /\ matching = NotMatched
    /\ race = NoRace
    /\ \E a \in 1..Len(TermSlugs), b \in 1..Len(TermIds), c \in 1..Len(TermNames) :
          population = <<TermSlugs[a], TermIds[b], TermNames[c]>>

SameVariantReward ==
    /\ matching.op = "none"
    /\ matching' = [matching EXCEPT
                       !.op = "_same_variant_reward",
                       !.result = _same_variant_reward(population[1], population[2],
                                                       population[3])]
    /\ UNCHANGED <<now, environ, cache_file, call, served, population, ranking, race>>

CoverageRewardOrPenalty ==
    /\ matching.op = "none"
    /\ matching' = [matching EXCEPT
                       !.op = "_coverage_reward_or_penalty",
                       !.result = _coverage_reward_or_penalty(population[1], population[2],
                                                              population[3])]
    /\ UNCHANGED <<now, environ, cache_file, call, served, population, ranking, race>>

NextTerm == SameVariantReward \/ CoverageRewardOrPenalty

SpecTerm == InitTerm /\ [][NextTerm]_vars

\* ---------------------------------------------------------------------
\* _normalize on the strings of at most MaxChars characters over an upper
\* case letter, a digit, the two characters it trims, a separator and a
\* character it strips.
MaxChars == 5

NormalizeAlphabet == {"A", "1", "-", "/", ".", "!"}

InitNormalize ==
    /\ now = Times[1]
    /\ environ = JNull
    /\ cache_file = FileMissing
    /\ call = Idle
    /\ served = NeverServed
    /\ ranking = NotRanked
    /\ matching = NotMatched
    /\ race = NoRace
    /\ \E n \in 0..MaxChars : population \in [1..n -> NormalizeAlphabet]

\* _normalize(value)
Normalize ==
    /\ matching.op = "none"
    /\ matching' = [matching EXCEPT !.op = "_normalize",
                                    !.result = _normalize(population)]
    /\ UNCHANGED <<now, environ, cache_file, call, served, population, ranking, race>>

\* _normalize of what _normalize returned
NormalizeAgain ==
    /\ matching.op = "_normalize"
    /\ matching' = [matching EXCEPT !.op = "_normalize again",
                                    !.before = matching.result,
                                    !.result = _normalize(matching.result)]
    /\ UNCHANGED <<now, environ, cache_file, call, served, population, ranking, race>>

NextNormalize == Normalize \/ NormalizeAgain

SpecNormalize == InitNormalize /\ [][NextNormalize]_vars

\* ---------------------------------------------------------------------
\* clients/aa_stats.py: get_aa_stats and its raw cache .cache/aa_models.json.
\* The environment is a record of the three variables it reads; the models
\* of the output, which do not bear on the cache, are left out of the output.
DEFAULT_CACHE_TTL_SECONDS == 60 * 60 * 12

\* int(text) of an environment variable or a cached value: JInt, or JNull
\* when int() raises
IntOrNone(value) ==
    CASE value.t = "int" -> value
      [] value.t = "str" /\ value.v # <<>> /\ AllDigits(value.v) -> JInt(ParseDigits(value.v))
      [] OTHER -> JNull

\* int(os.getenv("AA_CACHE_TTL_SECONDS", str(DEFAULT_CACHE_TTL_SECONDS)))
CacheTtlSeconds(env) ==
    IF IsNull(env.AA_CACHE_TTL_SECONDS) THEN JInt(DEFAULT_CACHE_TTL_SECONDS)
    ELSE IntOrNone(env.AA_CACHE_TTL_SECONDS)

\* _load_cache() followed by the age of the payload: JNull when the file
\* cannot be read or parsed, the payload cannot be subscripted by the key
\* or int() rejects the timestamp
AgeSeconds(cached, clock) ==
    IF cached.kind # "json" \/ ~IsObj(cached.value) THEN JNull
    ELSE IF "fetched_at_epoch_seconds" \notin DOMAIN cached.value.v THEN JNull
    ELSE IF IsNull(IntOrNone(cached.value.v["fetched_at_epoch_seconds"])) THEN JNull
    ELSE JInt(clock - IntOrNone(cached.value.v["fetched_at_epoch_seconds"]).v)

\* _fetch_and_cache_models: the GETs it sends, whether it raises, the payload
\* it returns and the cache file it leaves
_fetch_and_cache_models(api_key, response, clock, cached) ==
    IF ~Truthy(api_key)
    THEN [requests |-> 0, raised |-> TRUE, payload |-> JNull, cache |-> cached]
    ELSE IF FetchModelsRaises(api_key, response)
    THEN [requests |-> 1, raised |-> TRUE, payload |-> JNull, cache |-> cached]
    ELSE LET fetched == _fetch_models(api_key, response, clock)
             cache_payload ==
                 JObj([fetched_at_epoch_seconds |-> fetched.fetched_at_epoch_seconds,
                       status_code |-> fetched.status_code,
                       models |-> JList(fetched.models)])
         IN [requests |-> 1, raised |-> FALSE, payload |-> cache_payload,
             cache |-> FileJson(cache_payload)]

\* the try block of get_aa_stats with its except branch, on the age it
\* computed (JNull when computing it raised)
LoadOrFetch(age_seconds, cache_ttl_seconds, api_key, first, second, clock, cached) ==
    IF IsNull(age_seconds)
    THEN _fetch_and_cache_models(api_key, first, clock, cached)
    ELSE IF age_seconds.v > cache_ttl_seconds
    THEN LET attempt == _fetch_and_cache_models(api_key, first, clock, cached)
             again == _fetch_and_cache_models(api_key, second, clock, cached)
         IN IF ~attempt.raised THEN attempt
            ELSE [again EXCEPT !.requests = attempt.requests + again.requests]
    ELSE [requests |-> 0, raised |-> FALSE, payload |-> cached.value, cache |-> cached]

\* what get_aa_stats writes to .cache/aa_output.json and returns: JNull when
\* it raises (no "status_code" in the payload, "models" that is no list)
OutputOf(cache_payload) ==
    IF "status_code" \notin DOMAIN cache_payload.v THEN JNull
    ELSE IF "models" \in DOMAIN cache_payload.v /\ cache_payload.v["models"].t # "list" THEN JNull
    ELSE JObj([fetched_at_epoch_seconds |-> cache_payload.v["fetched_at_epoch_seconds"],
               status_code |-> cache_payload.v["status_code"]])

get_aa_stats(env, cached, clock, first, second) ==
    LET api_key == env.ARTIFICIALANALYSIS_API_KEY
        refresh_cache == JEq(env.AA_REFRESH, JStr(<<"1">>))
        cache_ttl_seconds == CacheTtlSeconds(env)
        loaded ==
            IF refresh_cache THEN _fetch_and_cache_models(api_key, first, clock, cached)
            ELSE LoadOrFetch(AgeSeconds(cached, clock), cache_ttl_seconds.v, api_key,
                             first, second, clock, cached)
    IN IF IsNull(cache_ttl_seconds)
       THEN [requests |-> 0, raised |-> TRUE, cache |-> cached, output |-> JNull]
       ELSE IF loaded.raised
       THEN [requests |-> loaded.requests, raised |-> TRUE, cache |-> loaded.cache,
             output |-> JNull]
       ELSE [requests |-> loaded.requests, raised |-> IsNull(OutputOf(loaded.payload)),
             cache |-> loaded.cache, output |-> OutputOf(loaded.payload)]

\* the environments: the key set or not, AA_REFRESH unset, "1" or "0", the
\* TTL unset, 60 seconds or no number
AaKeys == << JNull, JStr(<<"e">>) >>
AaRefreshes == << JNull, JStr(<<"1">>), JStr(<<"0">>) >>
AaTtls == << JNull, JStr(<<"6","0">>), JStr(<<"x">>) >>

\* a cache file get_aa_stats wrote at the time stamp
AaCache(stamp) ==
    FileJson(JObj([fetched_at_epoch_seconds |-> JInt(stamp), status_code |-> JInt(200),
                   models |-> JList(<<>>)]))

\* the cache files of a call at Times[2]: none, no JSON, a JSON list, a
\* payload without timestamp, one without status code, and the payloads
\* written 60 and 61 seconds ago, 12 hours and 12 hours and a second ago,
\* and a second in the future
AaFiles ==
    << FileMissing, FileGarbage, FileJson(JList(<<>>)),
       FileJson(JObj([status_code |-> JInt(200), models |-> JList(<<>>)])),
       FileJson(JObj([fetched_at_epoch_seconds |-> JInt(Times[2]), models |-> JList(<<>>)])),
       AaCache(Times[2] - 60), AaCache(Times[2] - 61),
       AaCache(Times[2] - DEFAULT_CACHE_TTL_SECONDS),
       AaCache(Times[2] - DEFAULT_CACHE_TTL_SECONDS - 1),
       AaCache(Times[2] + 1) >>

\* what the provider answers to a GET: the models, a status 500, no answer,
\* a body that is no JSON
AaResponses ==
    << HttpJson(BodyA(<<AA_gpt_5_mini>>)), HttpStatus(500), HttpError, HttpText >>

InitAa ==
    /\ now = Times[2]
    /\ \E k \in 1..Len(AaKeys), r \in 1..Len(AaRefreshes), t \in 1..Len(AaTtls) :
          environ = [ARTIFICIALANALYSIS_API_KEY |-> AaKeys[k],
                     AA_REFRESH |-> AaRefreshes[r],
                     AA_CACHE_TTL_SECONDS |-> AaTtls[t]]
    /\ \E f \in 1..Len(AaFiles) : cache_file = AaFiles[f]
    /\ call = Idle
    /\ served = NeverServed
    /\ population = <<>>
    /\ ranking = NotRanked
    /\ matching = NotMatched
    /\ race = NoRace

\* a call of get_aa_stats(); response_a and response_b are the answers to
\* the GETs it sent (0: not sent)
GetAaStats ==
    /\ call.op = "idle"
    /\ \E first, second \in 1..Len(AaResponses) :
          LET outcome == get_aa_stats(environ, cache_file, now,
                                      AaResponses[first], AaResponses[second])
          IN /\ cache_file' = outcome.cache
             /\ call' = [Idle EXCEPT !.op = "get_aa_stats",
                                     !.response_a = IF outcome.requests >= 1 THEN first ELSE 0,
                                     !.response_b = IF outcome.requests >= 2 THEN second ELSE 0,
                                     !.requests_a = outcome.requests,
                                     !.raised = outcome.raised,
                                     !.result = outcome.output,
                                     !.file_before = cache_file]
    /\ UNCHANGED <<now, environ, served, population, ranking, matching, race>>

NextAa == GetAaStats

SpecAa == InitAa /\ [][NextAa]_vars

(***************************************************************************)
(* Several callers of get_model_stats_selected() in list mode on one cache *)
(* file.  The text of the file is a sequence of pieces of equal length: an *)
(* opening brace with the key of the timestamp, the timestamp, one piece   *)
(* per model, the closing brace; a piece that was never written reads as   *)
(* NUL.  Path.write_text opens the file with mode "w", which truncates it, *)
(* and then writes the text at the position of its own file object, in one *)
(* write or in two; nothing orders the reads and the writes of two         *)
(* callers.                                                                *)
(***************************************************************************)
Piece(kind, value) == [kind |-> kind, value |-> value]
Nul == Piece("nul", JNull)

\* f"{json.dumps(payload, indent=2)}\n" of a selected payload, in pieces
TextOf(payload) ==
    << Piece("{", JNull), Piece("stamp", payload.fetched_at_epoch_seconds) >>
    \o ListOf([i \in 1..Len(payload.models) |-> Piece("model", payload.models[i])])
    \o << Piece("}", JNull) >>

\* json.loads(output_path.read_text()), as a cache file: garbage when
\* json.loads raises, as it does on an empty text, on a text that stops
\* before the closing brace, on NUL and on data after the closing brace
Loads(text) ==
    IF /\ Len(text) >= 3
       /\ text[1].kind = "{"
       /\ text[2].kind = "stamp"
       /\ text[Len(text)].kind = "}"
       /\ \A i \in 3..(Len(text) - 1) : text[i].kind = "model"
    THEN CacheOf(text[2].value, ListOf([i \in 1..(Len(text) - 3) |-> text[i + 2].value]))
    ELSE FileGarbage

\* the text after a write of the pieces at the position offset of a file
\* object: the pieces beyond the end extend the text, a gap reads as NUL
WriteAt(text, offset, pieces) ==
    ListOf([i \in 1..Max2(Len(text), offset + Len(pieces)) |->
               IF i > offset /\ i <= offset + Len(pieces) THEN pieces[i - offset]
               ELSE IF i <= Len(text) THEN text[i]
               ELSE Nul])

\* what get_match_models_union() and the mapping give a caller that
\* recomputes: the upstream data changes between two fetches
ModelA == JObj([id |-> JStr(<<"a">>)])
ModelB == JObj([id |-> JStr(<<"b">>)])
Upstream == << <<ModelA, ModelB>>, <<ModelB, ModelA>>, <<ModelA>> >>

MaxCallers == 3

NoPayload == [fetched_at_epoch_seconds |-> JNull, models |-> <<>>]

\* a caller that has not started: its position in get_model_stats_selected,
\* the payload it holds, what its file object has still to write and where,
\* and whether the text it read was torn
Starting == [pc |-> "load", payload |-> NoPayload, pending |-> <<>>, offset |-> 0, torn |-> FALSE]

\* the payload an earlier call has saved in full
Earlier == [fetched_at_epoch_seconds |-> JInt(T0), models |-> Upstream[1]]

\* the file is absent, or holds the payload of an earlier call, which is
\* fresh at Times[1] and stale at the last of Times
InitRace ==
    /\ environ = JNull
    /\ cache_file = FileMissing
    /\ call = Idle
    /\ served = NeverServed
    /\ population = <<>>
    /\ ranking = NotRanked
    /\ matching = NotMatched
    /\ \/ /\ now = Times[1]
          /\ race = [file |-> <<>>, callers |-> [c \in 1..MaxCallers |-> Starting], saved |-> {}]
       \/ /\ now \in {Times[1], Times[Len(Times)]}
          /\ race = [file |-> TextOf(Earlier), callers |-> [c \in 1..MaxCallers |-> Starting],
                     saved |-> {Earlier}]

\* a writer has opened the file and the text in it is the text of no payload
\* handed to a writer
Torn(text, saved) == saved # {} /\ \A payload \in saved : text # TextOf(payload)

\* cached_payload = _load_model_stats_selected_from_cache(DEFAULT_OUTPUT_PATH)
\* of caller c, and the return of it when it is not None
Loaded(c, cached_payload) ==
    IF IsNone(cached_payload)
    THEN [race.callers[c] EXCEPT !.pc = "fetch", !.torn = Torn(race.file, race.saved)]
    ELSE [race.callers[c] EXCEPT !.pc = "hit", !.payload = cached_payload,
                                 !.torn = Torn(race.file, race.saved)]

RaceLoad ==
    \E c \in 1..MaxCallers :
        /\ race.callers[c].pc = "load"
        /\ race' = [race EXCEPT !.callers[c] =
                       Loaded(c, _load_model_stats_selected_from_cache(Loads(race.file), now))]
        /\ UNCHANGED <<now, environ, cache_file, call, served, population, ranking, matching>>

\* the recomputation of caller c: get_match_models_union(), the mapping and
\* list_payload
RaceFetch ==
    \E c \in 1..MaxCallers : \E u \in 1..Len(Upstream) :
        /\ race.callers[c].pc = "fetch"
        /\ race' = [race EXCEPT !.callers[c].pc = "open",
                                !.callers[c].payload =
                                    [fetched_at_epoch_seconds |-> JInt(now), models |-> Upstream[u]]]
        /\ UNCHANGED <<now, environ, cache_file, call, served, population, ranking, matching>>

\* save_model_stats_selected(list_payload) of caller c, up to the open() of
\* write_text: the file is truncated
RaceOpen ==
    \E c \in 1..MaxCallers :
        /\ race.callers[c].pc = "open"
        /\ race' = [race EXCEPT !.file = <<>>,
                                !.saved = @ \cup {race.callers[c].payload},
                                !.callers[c].pc = "write",
                                !.callers[c].pending = TextOf(race.callers[c].payload),
                                !.callers[c].offset = 0]
        /\ UNCHANGED <<now, environ, cache_file, call, served, population, ranking, matching>>

\* one write of the file object of caller c: the next n pieces of its text,
\* all that is left when it is the second write; after the last one the file
\* is closed and list_payload is returned
RaceWrite ==
    \E c \in 1..MaxCallers : \E n \in 1..Len(race.callers[c].pending) :
        /\ race.callers[c].pc = "write"
        /\ race.callers[c].offset > 0 => n = Len(race.callers[c].pending)
        /\ race' = [race EXCEPT
              !.file = WriteAt(@, race.callers[c].offset, SubSeq(race.callers[c].pending, 1, n)),
              !.callers[c].pending = SubSeq(@, n + 1, Len(@)),
              !.callers[c].offset = IF n = Len(race.callers[c].pending) THEN 0 ELSE @ + n,
              !.callers[c].pc = IF n = Len(race.callers[c].pending) THEN "done" ELSE "write"]
        /\ UNCHANGED <<now, environ, cache_file, call, served, population, ranking, matching>>

\* the except branch of save_model_stats_selected: the open() or a write
\* raises, the text is left as it is and list_payload is returned
RaceSaveFails ==
    \E c \in 1..MaxCallers :
        /\ race.callers[c].pc \in {"open", "write"}
        /\ race' = [race EXCEPT !.callers[c].pc = "done", !.callers[c].pending = <<>>,
                                !.callers[c].offset = 0]
        /\ UNCHANGED <<now, environ, cache_file, call, served, population, ranking, matching>>

NextRace ==
    \/ RaceLoad
    \/ RaceFetch
    \/ RaceOpen
    \/ RaceWrite
    \/ RaceSaveFails

SpecRace == InitRace /\ [][NextRace]_vars

(***************************************************************************)
(* Properties.  They are stated on the state in which a call has returned: *)
(* call holds what the call was given and what it did, now and environ are *)
(* those of the call, cache_file is the file after it.                     *)
(***************************************************************************)
\* equality of two JSON values, of two lists of them, of two cache files
RECURSIVE Same(_, _)
Same(a, b) ==
    /\ a.t = b.t
    /\ CASE a.t \in {"null", "nan", "inf"} -> TRUE
         [] a.t \in {"int", "bool", "str", "num", "real"} -> a.v = b.v
         [] a.t = "list" ->
               /\ Len(a.v) = Len(b.v)
               /\ \A i \in 1..Len(a.v) : Same(a.v[i], b.v[i])
         [] a.t = "obj" ->
               /\ DOMAIN a.v = DOMAIN b.v
               /\ \A k \in DOMAIN a.v : Same(a.v[k], b.v[k])
         [] a.t = "omap" ->
               /\ Len(a.v) = Len(b.v)
               /\ \A i \in 1..Len(a.v) : a.v[i][1] = b.v[i][1] /\ Same(a.v[i][2], b.v[i][2])

SameList(p, q) == Len(p) = Len(q) /\ \A i \in 1..Len(p) : Same(p[i], q[i])

SameFile(f, g) == f.kind = g.kind /\ Same(f.value, g.value)

ListMode == call.op = "get_model_stats_selected" /\ call.options = 1
PointMode == call.op = "get_model_stats_selected" /\ call.options > 1

\* the cache file is a JSON object with a list "models" and a numeric
\* "fetched_at_epoch_seconds" (an integer or a float)
WellFormedCache(file) ==
    /\ file.kind = "json"
    /\ IsObj(file.value)
    /\ Get(file.value, "models").t = "list"
    /\ Get(file.value, "fetched_at_epoch_seconds").t \in {"int", "real"}

CachedStamp(file) == Get(file.value, "fetched_at_epoch_seconds")
CachedList(file) == Get(file.value, "models").v

\* the whole seconds of a timestamp; for a timestamp t with a fraction and
\* an integer n, n - t <= k exactly when n - WholeSeconds(t) <= k
WholeSeconds(stamp) == IF stamp.t = "int" THEN stamp.v ELSE stamp.v.floor

\* the number of requests a recomputation sends to Provider-A: one when the
\* environment holds a key
RequestsWithEnvironKey == IF IsStr(environ) /\ environ.v # <<>> THEN 1 ELSE 0

\* the call did nothing but read the cache file
NothingButRead ==
    /\ call.requests_a = 0 /\ call.requests_b = 0
    /\ call.write = "none"
    /\ SameFile(cache_file, call.file_before)

\* the selected models a recomputation gives in list mode, from the responses
\* the call received
FreshModels ==
    SelectedModelsOn[1][EnvIndex][call.response_a + 1][call.response_b][ClockIndex]

\* C1 as the specification states it: in list mode a well-formed cache whose
\* age now - fetched_at is at most 24h is returned unchanged, without any
\* fetch or write.
C1_AsStated ==
    (/\ ListMode
     /\ WellFormedCache(call.file_before)
     /\ now - WholeSeconds(CachedStamp(call.file_before)) <= CACHE_TTL_SECONDS)
    => /\ Same(call.result.fetched_at_epoch_seconds, CachedStamp(call.file_before))
       /\ SameList(call.result.models, CachedList(call.file_before))
       /\ NothingButRead

\* C1, amended: in list mode a well-formed cache whose age in whole seconds,
\* now - int(fetched_at), is at least 0 and at most 24h is returned with its
\* models unchanged and its timestamp truncated to an integer, without any
\* fetch or write.
C1_FreshCacheServed ==
    (/\ ListMode
     /\ WellFormedCache(call.file_before)
     /\ 0 <= now - WholeSeconds(CachedStamp(call.file_before))
     /\ now - WholeSeconds(CachedStamp(call.file_before)) <= CACHE_TTL_SECONDS)
    => /\ Same(call.result.fetched_at_epoch_seconds,
               JInt(WholeSeconds(CachedStamp(call.file_before))))
       /\ SameList(call.result.models, CachedList(call.file_before))
       /\ NothingButRead

\* a list-mode call has served a cache that is exactly 24h old
C1_Witness ==
    /\ ListMode
    /\ WellFormedCache(call.file_before)
    /\ now - WholeSeconds(CachedStamp(call.file_before)) = CACHE_TTL_SECONDS
    /\ call.result.models # <<>>
    /\ call.requests_b = 0

\* C2: in list mode, when the cache is missing, malformed or older than 24h,
\* the call does not raise, asks both providers, returns the freshly computed
\* models stamped with the current time and hands exactly that payload to the
\* cache write; whatever the write does, the returned payload is the same.
C2_StaleCacheRecomputed ==
    (/\ ListMode
     /\ \/ ~WellFormedCache(call.file_before)
        \/ now - WholeSeconds(CachedStamp(call.file_before)) > CACHE_TTL_SECONDS)
    => /\ ~call.raised
       /\ call.requests_a = RequestsWithEnvironKey
       /\ call.requests_b = 1
       /\ Same(call.result.fetched_at_epoch_seconds, JInt(now))
       /\ SameList(call.result.models, FreshModels)
       /\ call.write \in WriteOutcomes
       /\ Same(call.written.fetched_at_epoch_seconds, call.result.fetched_at_epoch_seconds)
       /\ SameList(call.written.models, call.result.models)
       /\ call.write = "ok" => SameFile(cache_file, CacheOf(JInt(now), call.result.models))
       /\ call.write = "refused" => SameFile(cache_file, call.file_before)

\* a list-mode call found a cache a second too old, recomputed a model and
\* the write failed half-way
C2_Witness ==
    /\ ListMode
    /\ WellFormedCache(call.file_before)
    /\ now - WholeSeconds(CachedStamp(call.file_before)) = CACHE_TTL_SECONDS + 1
    /\ call.write = "torn"
    /\ call.result.models # <<>>
    /\ cache_file.kind = "garbage"

\* C3: in point mode the call always asks both providers, also when a fresh
\* cache exists, neither reads nor writes the cache file, and returns exactly
\* the mapped union models whose id is the requested id.
C3_PointModeBypassesCache ==
    PointMode
    => /\ call.requests_a = RequestsWithEnvironKey
       /\ call.requests_b = 1
       /\ call.reads = 0
       /\ call.write = "none"
       /\ SameFile(cache_file, call.file_before)
       /\ SameList(call.result.models,
                   SelectSeq(FreshModels,
                             LAMBDA m : Same(Get(m, "id"),
                                             Get(SelectedOptions[call.options], "id"))))

\* a point-mode call over a fresh cache returned one of two union models
C3_Witness ==
    /\ PointMode
    /\ WellFormedCache(call.file_before)
    /\ now = WholeSeconds(CachedStamp(call.file_before))
    /\ Len(FreshModels) = 2
    /\ Len(call.result.models) = 1

\* the responses of ResponsesA and of ResponsesB that are failures of the
\* fetch/normalize path: transport, parse, validation
FailuresA == 1..5
FailuresB == 1..4

\* the payload {null, null, []}
IsEmptyStats(result) ==
    /\ IsNull(result.fetched_at_epoch_seconds)
    /\ IsNull(result.status_code)
    /\ Len(result.models) = 0

\* no timestamp without a status or the reverse, no models without a timestamp
NotPartial(result) ==
    /\ IsNull(result.fetched_at_epoch_seconds) <=> IsNull(result.status_code)
    /\ IsNull(result.fetched_at_epoch_seconds) => Len(result.models) = 0

\* C4: a call of get_artificial_analysis_stats or of get_models_dev_stats
\* never raises; on a transport, parse or validation failure it returns
\* {null, null, []}, and it never returns a partially filled payload.
C4_FetchersFailSafe ==
    /\ call.op = "get_artificial_analysis_stats"
       => /\ ~call.raised
          /\ call.response_a \in FailuresA => IsEmptyStats(call.result)
          /\ NotPartial(call.result)
    /\ call.op = "get_models_dev_stats"
       => /\ ~call.raised
          /\ call.response_b \in FailuresB => IsEmptyStats(call.result)
          /\ NotPartial(call.result)

\* Provider-A answered 200 with a model that cannot be ranked, and the call
\* returned the empty payload
C4_Witness ==
    /\ call.op = "get_artificial_analysis_stats"
    /\ call.response_a = 5
    /\ IsEmptyStats(call.result)

\* a request of the call was answered by a failure
ProviderFetchFailed ==
    \/ call.requests_a = 1 /\ call.response_a \in FailuresA
    \/ call.requests_b = 1 /\ call.response_b \in FailuresB

\* C5 as the specification states it: when a provider fetch fails during
\* get_model_stats_selected, the payload returned has no models and a null
\* timestamp.
C5_AsStated ==
    (call.op = "get_model_stats_selected" /\ ProviderFetchFailed)
    => /\ Len(call.result.models) = 0
       /\ IsNull(call.result.fetched_at_epoch_seconds)

\* a list-mode call whose Provider-A request failed returned an empty list
\* stamped with the current time and wrote it to the cache
C5_Witness ==
    /\ ListMode
    /\ call.requests_a = 1 /\ call.response_a = 1
    /\ Len(call.result.models) = 0
    /\ Same(call.result.fetched_at_epoch_seconds, JInt(now))
    /\ call.write = "ok"
    /\ SameFile(cache_file, CacheOf(JInt(now), <<>>))

\* C6 as the specification states it: get_match_model_mapping never raises,
\* whatever its options and whatever the two fetches give.
C6_AsStated == call.op = "get_match_model_mapping" => ~call.raised

\* the call with max_candidates "abc" raised before any request was sent
C6_Witness ==
    /\ call.op = "get_match_model_mapping"
    /\ call.options = 6
    /\ call.raised
    /\ call.requests_a = 0 /\ call.requests_b = 0

\* C7: a call of any of the five entry points sends at most one request to
\* each provider, whether the request succeeds, times out or fails.
C7_NoRetry ==
    call.op \in {"get_artificial_analysis_stats", "get_models_dev_stats",
                 "get_match_model_mapping", "get_match_models_union",
                 "get_model_stats_selected"}
    => call.requests_a <= 1 /\ call.requests_b <= 1

\* both requests of a union call failed in transport and each was sent once
C7_Witness ==
    /\ call.op = "get_match_models_union"
    /\ call.response_a = 1 /\ call.response_b = 1
    /\ call.requests_a = 1 /\ call.requests_b = 1

\* the default time to live of a raw-source cache, 12h
RAW_CACHE_TTL_SECONDS == 60 * 60 * 12

\* the call comes within 12h after a successful call of the same entry point
WithinRawTTL ==
    /\ Len(call.prior) = 1
    /\ 0 <= now - call.prior[1]
    /\ now - call.prior[1] <= RAW_CACHE_TTL_SECONDS

HasKey(options) == IsStr(Get(options, "api_key")) /\ Get(options, "api_key").v # <<>>

C9_NoKeyNoRequest ==
    (/\ call.op = "get_artificial_analysis_stats"
     /\ ~HasKey(OptionsA[call.options])
     /\ RequestsWithEnvironKey = 0)
    => /\ call.requests_a = 0
       /\ call.response_a = 0
       /\ ~call.raised
       /\ IsEmptyStats(call.result)

\* the call with an empty key in the options and no key in the environment
C9_Witness ==
    /\ call.op = "get_artificial_analysis_stats"
    /\ call.options = 2
    /\ IsNull(environ)
    /\ call.requests_a = 0
    /\ IsEmptyStats(call.result)

\* the five values the scorer needs: the three prices, the time to the first
\* answer token and the tokens per second
ScoredValues(model) ==
    << Get(Get(model, "pricing"), "price_1m_blended_3_to_1"),
       Get(Get(model, "pricing"), "price_1m_input_tokens"),
       Get(Get(model, "pricing"), "price_1m_output_tokens"),
       Get(model, "median_time_to_first_answer_token"),
       Get(model, "median_output_tokens_per_second") >>

\* the release date is a string that is lexicographically >= the cutoff date
ReleasedSince(model, cutoff_date) ==
    /\ IsStr(Get(model, "release_date"))
    /\ StrGeq(Get(model, "release_date").v, cutoff_date)

\* a JSON number that is finite and strictly positive
PositiveNumber(value) ==
    \/ value.t = "num" /\ value.v.n > 0
    \/ value.t = "int" /\ value.v > 0

\* a value float() converts to a finite, strictly positive number: such a
\* number, true, or a string that spells one
ConvertsToPositive(value) ==
    \/ PositiveNumber(value)
    \/ value.t = "bool" /\ value.v
    \/ value.t = "str" /\ value.v # <<>> /\ AllDigits(value.v) /\ ParseDigits(value.v) > 0

\* the model number i of population is in the scored output
InOutput(i) ==
    \E k \in 1..Len(ranking.models) :
        Same(Get(ranking.models[k], "slug"), Get(population[i], "slug"))

CutoffDate == _iso_date_days_ago(now, LOOKBACK_DAYS)

\* C10 as the specification states it: a model is in the scored output
\* exactly when its release date is on or after the cutoff and its five
\* values are all strictly positive finite numbers.
C10_AsStated ==
    (ranking.done /\ ~ranking.raised)
    => \A i \in 1..Len(population) :
          InOutput(i) <=>
             /\ ReleasedSince(population[i], CutoffDate)
             /\ \A f \in 1..5 : PositiveNumber(ScoredValues(population[i])[f])

\* C10, amended: a model is in the scored output exactly when its release
\* date is a string on or after the cutoff and each of its five values is one
\* that float() converts to a strictly positive finite number (a number, true
\* or a numeric string); a model of the output has an overall, a price and a
\* speed score.
C10_ScoredIffConvertible ==
    (ranking.done /\ ~ranking.raised)
    => /\ \A i \in 1..Len(population) :
             InOutput(i) <=>
                /\ ReleasedSince(population[i], CutoffDate)
                /\ \A f \in 1..5 : ConvertsToPositive(ScoredValues(population[i])[f])
       /\ \A k \in 1..Len(ranking.models) :
             LET scores == Get(ranking.models[k], "scores")
             IN /\ ~IsNull(Get(scores, "overall_score"))
                /\ ~IsNull(Get(scores, "price_score"))
                /\ ~IsNull(Get(scores, "speed_score"))

\* of two models the one with a blended price of 0 is absent from the output
C10_Witness ==
    /\ ranking.done /\ ~ranking.raised
    /\ Len(population) = 2
    /\ Len(ranking.models) = 1
    /\ \E i \in 1..2 :
          /\ ~InOutput(i)
          /\ Same(ScoredValues(population[i])[1], JNum(0))

\* the position of the model of the output in the list the scorer was given
InputPosition(model) ==
    CHOOSE i \in 1..Len(population) : Same(Get(population[i], "slug"), Get(model, "slug"))

\* the overall score of the model number k of the output, a fraction
Overall(k) == Get(Get(ranking.models[k], "scores"), "overall_score").v

\* a percentile is None or lies in [0, 100]
NoneOrInRange(percentile) ==
    \/ IsNull(percentile)
    \/ /\ percentile.t = "num"
       /\ RLeq(RZero, percentile.v) /\ RLeq(percentile.v, Rat(100 * Milli, 1))

PercentileKeys ==
    {"overall_percentile", "intelligence_percentile", "speed_percentile", "price_percentile"}

\* C11: in the scored output every overall_percentile is a number of
\* [0, 100], every other percentile is None or a number of [0, 100], and a
\* model whose overall score is the maximum of the output has
\* overall_percentile = 100.
C11_PercentilesInRange ==
    (ranking.done /\ ~ranking.raised)
    => \A k \in 1..Len(ranking.models) :
          LET percentiles == Get(ranking.models[k], "percentiles")
          IN /\ ~IsNull(Get(percentiles, "overall_percentile"))
             /\ \A key \in PercentileKeys : NoneOrInRange(Get(percentiles, key))
             /\ (\A j \in 1..Len(ranking.models) : RLeq(Overall(j), Overall(k)))
                   => Same(Get(percentiles, "overall_percentile"), JNum(100 * Milli))

\* three models are ranked, two share the maximum and have percentile 100,
\* the third is below 100 and has no intelligence percentile
C11_Witness ==
    /\ ranking.done /\ ~ranking.raised
    /\ Len(ranking.models) = 3
    /\ RLess(Overall(3), Overall(1))
    /\ ~RLess(Overall(2), Overall(1))
    /\ Same(Get(Get(ranking.models[2], "percentiles"), "overall_percentile"), JNum(100 * Milli))
    /\ RLess(Get(Get(ranking.models[3], "percentiles"), "overall_percentile").v,
             Rat(100 * Milli, 1))
    /\ IsNull(Get(Get(ranking.models[3], "percentiles"), "intelligence_percentile"))

\* C12 as the specification states it: the scored output is ordered by
\* overall score descending, and two models of equal overall score keep the
\* order they had in the input list.
C12_AsStated ==
    (ranking.done /\ ~ranking.raised)
    => \A j, k \in 1..Len(ranking.models) :
          j < k => /\ RLeq(Overall(k), Overall(j))
                   /\ Overall(k) = Overall(j)
                         => InputPosition(ranking.models[j]) < InputPosition(ranking.models[k])

\* a model with a negative overall score is ranked before a model whose
\* overall score is 0.0
C12_Witness ==
    /\ ranking.done /\ ~ranking.raised
    /\ \E j, k \in 1..Len(ranking.models) :
          /\ j < k
          /\ RLess(Overall(j), RZero)
          /\ Overall(k) = RZero

\* the matcher has built the mapping view, the union view, either of them
MappingDone == matching.op = "get_match_model_mapping"
UnionDone == matching.op = "get_match_models_union"
Matched == matching.op # "none"

\* the candidates an entry of the mapping view lists, and the score and the
\* model id of a candidate
Listed(entry) == Get(entry, "candidates").v
ScoreIn(candidate) == Get(candidate, "score").v
IdIn(candidate) == Get(candidate, "model_id").v

\* the cap the caller asked for: the max_candidates given, 5 when none is
CapAsked ==
    LET raw == Get(MappingOptions[matching.options], "max_candidates")
    IN IF IsNull(raw) THEN 5 ELSE raw.v

\* C13 as the specification states it: before voiding, every retained
\* candidate of every source model has a score > 0, the candidates are
\* sorted by score descending and by model_id ascending among equal scores,
\* best_match is the first of them and null exactly when there is none, and
\* the list of the mapping view has at most max_candidates entries, 5 when
\* the option is not given (a negative max_candidates is no cap).
C13_AsStated ==
    MappingDone
    => \A i \in 1..Len(matching.before) :
          LET entry == matching.before[i]
          IN /\ \A k \in 1..Len(Listed(entry)) : RLess(RZero, ScoreIn(Listed(entry)[k]))
             /\ \A j, k \in 1..Len(Listed(entry)) :
                   j < k => \/ RLess(ScoreIn(Listed(entry)[k]), ScoreIn(Listed(entry)[j]))
                            \/ /\ ScoreIn(Listed(entry)[k]) = ScoreIn(Listed(entry)[j])
                               /\ ~StrLess(IdIn(Listed(entry)[k]), IdIn(Listed(entry)[j]))
             /\ IF Listed(entry) = <<>> THEN IsNull(Get(entry, "best_match"))
                ELSE Same(Get(entry, "best_match"), Listed(entry)[1])
             /\ CapAsked >= 0 => Len(Listed(entry)) <= CapAsked

\* the mapping was asked for with max_candidates = 0 and a source model has
\* two candidates
C13_Witness ==
    /\ MappingDone
    /\ Get(MappingOptions[matching.options], "max_candidates") = JInt(0)
    /\ \E i \in 1..Len(matching.before) : Len(Listed(matching.before[i])) = 2

\* the slug of a source model, and the model id and the display name of a
\* models.dev row
SlugOf(aa_model) == StrOrEmpty(Get(aa_model, "slug"))
RowId(row) == StrOrEmpty(Get(row, "model_id"))
RowName(row) == StrOrEmpty(Get(OrEmptyObj(Get(row, "model")), "name"))

\* the number of the first parameter-scale token (\d+b) among the tokens,
\* -1 when there is none
FirstScale(tokens) ==
    LET scales == SelectSeq(tokens, IsPlainBScale)
    IN IF scales = <<>> THEN -1
       ELSE ParseDigits(SubSeq(scales[1], 1, Len(scales[1]) - 1))

\* the scale a row states: that of the trailing segment of its model id,
\* else that of its display name
RowScale(row) ==
    IF FirstScale(_split_tokens(_split_base_model_id(RowId(row)))) # -1
    THEN FirstScale(_split_tokens(_split_base_model_id(RowId(row))))
    ELSE FirstScale(_split_tokens(RowName(row)))

\* the source model and the row state two different parameter scales
ScalesDiffer(aa_model, row) ==
    /\ FirstScale(_split_tokens(SlugOf(aa_model))) # -1
    /\ RowScale(row) # -1
    /\ RowScale(row) # FirstScale(_split_tokens(SlugOf(aa_model)))

\* the model ids an entry names: those of its candidates and of its best match
NamedIds(entry) ==
    {IdIn(Listed(entry)[k]) :
        k \in 1..(IF Get(entry, "candidates").t = "list" THEN Len(Listed(entry)) ELSE 0)}
    \cup (IF IsNull(Get(entry, "best_match")) THEN {} ELSE {IdIn(Get(entry, "best_match"))})

\* C14: for every source model whose slug has a parameter-scale token and
\* every row whose scale (of the trailing segment of its model id, else of
\* its display name) is another number, _score_candidate is 0 and the row is
\* neither among the candidates nor the best match of that source model.
C14_HardVeto ==
    Matched
    => \A i \in 1..Len(population) : \A r \in 1..Len(matching.listing) :
          ScalesDiffer(population[i], matching.listing[r])
          => /\ _score_candidate(SlugOf(population[i]), RowId(matching.listing[r]),
                                 RowName(matching.listing[r])) = RZero
             /\ RowId(matching.listing[r]) \notin NamedIds(matching.before[i])

\* a source model of 70b is matched to the row of 70b while the listing has a
\* row of 8b with the same first token
C14_Witness ==
    /\ Matched
    /\ \E i \in 1..Len(population) : \E r \in 1..Len(matching.listing) :
          /\ ScalesDiffer(population[i], matching.listing[r])
          /\ _has_first_token_match(SlugOf(population[i]), RowId(matching.listing[r]),
                                    RowName(matching.listing[r]))
          /\ ~IsNull(Get(matching.before[i], "best_match"))

\* the first of the tokens, <<>> when there is none
FirstToken(tokens) == IF tokens = <<>> THEN <<>> ELSE tokens[1]

\* the row is of the designated sub-provider
OfOpenRouter(row) == JEq(Get(row, "provider_id"), JStr(<<"o","p","e","n","r","o","u","t","e","r">>))

\* the first token of the trailing segment of the row's model id, or the
\* first token of its display name, is the first token of the slug
SharesFirstToken(aa_model, row) ==
    /\ FirstToken(_split_tokens(SlugOf(aa_model))) # <<>>
    /\ FirstToken(_split_tokens(SlugOf(aa_model)))
          \in {FirstToken(_split_tokens(_split_base_model_id(RowId(row)))),
               FirstToken(_split_tokens(RowName(row)))}

\* C15: a row is a candidate or the best match of a source model only if its
\* provider_id is "openrouter" and the first token of the trailing segment of
\* its model id, or of its display name, is the first token of the slug of the
\* source model; every candidate is such a row of the listing.
C15_Gating ==
    Matched
    => \A i \in 1..Len(population) :
          /\ \A r \in 1..Len(matching.listing) :
                RowId(matching.listing[r]) \in NamedIds(matching.before[i])
                => /\ OfOpenRouter(matching.listing[r])
                   /\ SharesFirstToken(population[i], matching.listing[r])
          /\ \A id \in NamedIds(matching.before[i]) :
                \E r \in 1..Len(matching.listing) : RowId(matching.listing[r]) = id

\* a source model has a best match while the listing has an openrouter row of
\* another first token that _score_candidate scores above 0
C15_Witness ==
    /\ Matched
    /\ \E i \in 1..Len(population) : \E r \in 1..Len(matching.listing) :
          /\ ~IsNull(Get(matching.before[i], "best_match"))
          /\ OfOpenRouter(matching.listing[r])
          /\ ~SharesFirstToken(population[i], matching.listing[r])
          /\ RLess(RZero, _score_candidate(SlugOf(population[i]), RowId(matching.listing[r]),
                                           RowName(matching.listing[r])))

\* the source models that have a best match before the void pass, and the
\* score of the best match of an entry
WithBestMatch == {i \in 1..Len(matching.before) : ~IsNull(Get(matching.before[i], "best_match"))}
BestScore(entry) == ScoreIn(Get(entry, "best_match"))

\* the lowest and the highest of these scores
LowestBest ==
    BestScore(matching.before[CHOOSE i \in WithBestMatch :
        \A j \in WithBestMatch : ~RLess(BestScore(matching.before[j]), BestScore(matching.before[i]))])
HighestBest ==
    BestScore(matching.before[CHOOSE i \in WithBestMatch :
        \A j \in WithBestMatch : ~RLess(BestScore(matching.before[i]), BestScore(matching.before[j]))])

\* score < min + 0.35 * (max - min), and score = min + 0.35 * (max - min)
BelowThreshold(score) ==
    RLess(RScale(RSub(score, LowestBest), 100), RScale(RSub(HighestBest, LowestBest), 35))
AtThreshold(score) ==
    RScale(RSub(score, LowestBest), 100) = RScale(RSub(HighestBest, LowestBest), 35)

\* the source models the void pass has to clear
ToClear == {i \in WithBestMatch : BelowThreshold(BestScore(matching.before[i]))}

\* C16: the threshold is min + 0.35 * (max - min) over the best-match scores
\* of the source models that have a best match; after the pass exactly the
\* models whose score was strictly below it have best_match = null and
\* candidates = [] and every other model is unchanged; void_threshold is that
\* threshold, null when no model has a best match, and voided_count is the
\* number of models cleared.  The union view keeps the rows not cleared.
C16_Voiding ==
    Matched
    => /\ IF WithBestMatch = {} THEN IsNull(matching.result.void_threshold)
          ELSE /\ matching.result.void_threshold.t = "num"
               /\ AtThreshold(matching.result.void_threshold.v)
       /\ matching.result.voided_count = Cardinality(ToClear)
       /\ MappingDone
          => /\ Len(matching.result.models) = Len(matching.before)
             /\ \A i \in 1..Len(matching.before) :
                   IF i \in ToClear
                   THEN /\ IsNull(Get(matching.result.models[i], "best_match"))
                        /\ Get(matching.result.models[i], "candidates") = JList(<<>>)
                        /\ Same(With(With(matching.result.models[i], "best_match", JNull),
                                     "candidates", JNull),
                                With(With(matching.before[i], "best_match", JNull),
                                     "candidates", JNull))
                   ELSE Same(matching.result.models[i], matching.before[i])
       /\ UnionDone
          => Len(matching.result.models) = Cardinality(WithBestMatch \ ToClear)

\* the pass clears a model and keeps one whose score is neither the lowest
\* nor the highest
C16_Witness ==
    /\ MappingDone
    /\ ToClear # {}
    /\ \E i \in WithBestMatch \ ToClear :
          /\ RLess(BestScore(matching.before[i]), HighestBest)
          /\ ~IsNull(Get(matching.result.models[i], "best_match"))

\* the source models whose best match is non-null after the void pass
Surviving == WithBestMatch \ ToClear

\* the source models whose union is the row
SourcesOf(row) ==
    {i \in 1..Len(matching.before) : Same(Get(matching.before[i], "union"), row)}

\* C17: in the payload of get_match_models_union, total_union_models is at
\* most total_artificial_analysis_models and is the length of models, and
\* each union row is the union of exactly one source model, one whose best
\* match is non-null after the void pass; every such source model has its
\* row, so unmatched and voided source models have none.
C17_UnionCounts ==
    UnionDone
    => /\ matching.result.total_union_models <= matching.result.total_artificial_analysis_models
       /\ matching.result.total_artificial_analysis_models = Len(population)
       /\ matching.result.total_union_models = Len(matching.result.models)
       /\ Len(matching.result.models) = Cardinality(Surviving)
       /\ \A k \in 1..Len(matching.result.models) :
             /\ Cardinality(SourcesOf(matching.result.models[k])) = 1
             /\ SourcesOf(matching.result.models[k]) \subseteq Surviving
       /\ \A i \in Surviving : \E k \in 1..Len(matching.result.models) :
             i \in SourcesOf(matching.result.models[k])

\* the union is built from a source model without a match, one that is
\* voided and one that survives
C17_Witness ==
    /\ UnionDone
    /\ WithBestMatch # 1..Len(matching.before)
    /\ ToClear # {}
    /\ Surviving # {}
    /\ matching.result.total_union_models = 1

\* the nested model of the first openrouter row of the listing that has the
\* model id
NestedOf(id) ==
    LET hits == {r \in 1..Len(matching.listing) :
                    OfOpenRouter(matching.listing[r]) /\ RowId(matching.listing[r]) = id}
    IN Get(matching.listing[CHOOSE r \in hits : \A q \in hits : r <= q], "model")

\* the row is the nested model overlaid by the source model, under the
\* display name of the nested model when it has one, else under the name of
\* the source model (null when that is empty too)
Overlaid(row, aa_model, nested) ==
    /\ DOMAIN row.v = DOMAIN aa_model.v \cup DOMAIN nested.v \cup {"name"}
    /\ \A k \in DOMAIN aa_model.v \ {"name"} : Same(row.v[k], aa_model.v[k])
    /\ \A k \in DOMAIN nested.v \ (DOMAIN aa_model.v \cup {"name"}) : Same(row.v[k], nested.v[k])
    /\ Same(Get(row, "name"),
            IF Truthy(Get(nested, "name")) THEN Get(nested, "name")
            ELSE IF Truthy(Get(aa_model, "name")) THEN Get(aa_model, "name")
            ELSE JNull)

\* C18: each union row is the nested model of the matched models.dev row
\* overlaid by the source model: every key of the source model other than
\* name has the source's value, the keys of the nested model alone keep its
\* value, and name is the display name of the nested model when it has one,
\* else the name of the source model.
C18_Overlay ==
    UnionDone
    => \A k \in 1..Len(matching.result.models) :
          \E i \in Surviving :
             /\ Get(matching.result.models[k], "slug") = JStr(SlugOf(population[i]))
             /\ Overlaid(matching.result.models[k], population[i],
                         NestedOf(IdIn(Get(matching.before[i], "best_match"))))

\* the source model gpt-5-mini is matched to openai/gpt-5-mini named
\* "GPT-5 Mini" and its row has that name
C18_Witness ==
    /\ UnionDone
    /\ \E k \in 1..Len(matching.result.models) :
          /\ Get(matching.result.models[k], "slug") = JStr(Slug_gpt_5_mini)
          /\ Get(matching.result.models[k], "id") = JStr(Id_openai_gpt_5_mini)
          /\ Get(matching.result.models[k], "name") = JStr(<<"G","P","T","-","5"," ","M","i","n","i">>)
          /\ Get(matching.result.models[k], "release_date") = JStr(Date_2025_01_01)

\* C19 as the specification states it: the union view is deduplicated, no
\* two surviving source models have the same models.dev model as best match
\* and no two union rows have the same id.
C19_AsStated ==
    UnionDone
    => /\ \A i, j \in Surviving :
             i # j => IdIn(Get(matching.before[i], "best_match"))
                         # IdIn(Get(matching.before[j], "best_match"))
       /\ \A j, k \in 1..Len(matching.result.models) :
             j # k => Get(matching.result.models[j], "id") # Get(matching.result.models[k], "id")

\* the union has two rows, of two source models that pass the gate of the
\* same models.dev row
C19_Witness ==
    /\ UnionDone
    /\ Len(matching.result.models) = 2
    /\ \E i, j \in Surviving :
          /\ i # j
          /\ \E r \in 1..Len(matching.listing) :
                /\ OfOpenRouter(matching.listing[r])
                /\ SharesFirstToken(population[i], matching.listing[r])
                /\ SharesFirstToken(population[j], matching.listing[r])

\* C20 as the specification states it: with uncoordinated callers and a
\* write that truncates and then writes, a caller served from the cache
\* returns a payload that was handed to a writer in full, and a text that is
\* the text of no such payload fails the parse, shape and age check of the
\* reader.
C20_AsStated ==
    /\ \A c \in DOMAIN race.callers :
          race.callers[c].pc = "hit" => race.callers[c].payload \in race.saved
    /\ Torn(race.file, race.saved)
       => IsNone(_load_model_stats_selected_from_cache(Loads(race.file), now))

\* a caller has read a text that no writer was given, between the truncation
\* and the end of a write, has recomputed and has written its own payload
C20_Witness ==
    \E c \in DOMAIN race.callers :
        /\ race.callers[c].torn
        /\ race.callers[c].pc = "done"
        /\ race.callers[c].payload \in race.saved
        /\ \E w \in DOMAIN race.callers : w # c /\ race.callers[w].pc \in {"write", "done"}

\* the score column of a percentile column
ScoreKeyOf(key) ==
    CASE key = "overall_percentile" -> "overall_score"
      [] key = "intelligence_percentile" -> "intelligence_score"
      [] key = "speed_percentile" -> "speed_score"
      [] key = "price_percentile" -> "price_score"

\* the value of the model number k of the output in a score column
ColumnValue(k, key) == Get(Get(ranking.models[k], "scores"), ScoreKeyOf(key))

\* the models of the output that have a value in the column, and those whose
\* value is at most that of the model number k
InColumn(key) == {j \in 1..Len(ranking.models) : ~IsNull(ColumnValue(j, key))}
AtMost(k, key) == {j \in InColumn(key) : RLeq(ColumnValue(j, key).v, ColumnValue(k, key).v)}

\* 100 * count / size, in the unit of the stored percentiles
Percent(count, size) == JRat(Rat(count * 100 * Milli, size))

\* C21 as the specification states it: in each of the four columns the
\* percentile of a model that has a value is 100 * (number of models of the
\* output whose value is <= its value) / (number of models of the output),
\* the same denominator for every column.
C21_AsStated ==
    (ranking.done /\ ~ranking.raised)
    => \A k \in 1..Len(ranking.models) : \A key \in PercentileKeys :
          k \in InColumn(key)
          => Same(Get(Get(ranking.models[k], "percentiles"), key),
                  Percent(Cardinality(AtMost(k, key)), Len(ranking.models)))

\* C21 as amended: the denominator of a column is the number of models of
\* the output that have a value in that column, and a model without a value
\* in the column has percentile None.
C21_PerColumn ==
    (ranking.done /\ ~ranking.raised)
    => \A k \in 1..Len(ranking.models) : \A key \in PercentileKeys :
          IF k \in InColumn(key)
          THEN Same(Get(Get(ranking.models[k], "percentiles"), key),
                    Percent(Cardinality(AtMost(k, key)), Cardinality(InColumn(key))))
          ELSE IsNull(Get(Get(ranking.models[k], "percentiles"), key))

\* the output has three models of which one alone has an intelligence score;
\* its intelligence percentile is 100 (1 of 1) and the price percentiles are
\* counted over the three
C21_Witness ==
    /\ ranking.done /\ ~ranking.raised
    /\ Len(ranking.models) = 3
    /\ Cardinality(InColumn("intelligence_percentile")) = 1
    /\ Cardinality(InColumn("price_percentile")) = 3
    /\ \E k \in InColumn("intelligence_percentile") :
          /\ Same(Get(Get(ranking.models[k], "percentiles"), "intelligence_percentile"),
                  Percent(1, 1))
          /\ Same(Get(Get(ranking.models[k], "percentiles"), "price_percentile"),
                  Percent(3, 3))
    /\ \E k \in 1..3 :
          /\ IsNull(Get(Get(ranking.models[k], "percentiles"), "intelligence_percentile"))
          /\ Same(Get(Get(ranking.models[k], "percentiles"), "price_percentile"),
                  Percent(1, 3))

\* the weights the specification gives the four components, in tenths:
\* intelligence 0.3, benchmark bias 0.3, price 0.2, speed 0.2
StatedWeights == <<3, 3, 2, 2>>

\* the components that are not None, and the share of component number i in
\* the weighted sum
Present == {i \in 1..4 : ~IsNull(population[i])}
Share(i) == IF i \in Present THEN RScale(population[i].v, StatedWeights[i]) ELSE RZero
WeightOf(i) == IF i \in Present THEN StatedWeights[i] ELSE 0

\* C22: the overall score is the sum of w_i * s_i divided by the sum of w_i
\* over exactly the components that are not None, with the weights 0.3, 0.3,
\* 0.2, 0.2; it is None if and only if the four components are None.
C22_WeightedMean ==
    ranking.done
    => LET overall_score == Get(ranking.models[1], "overall_score")
       IN /\ IsNull(overall_score) <=> Present = {}
          /\ Present # {}
                => overall_score.v =
                      RDiv(RAdd(RAdd(Share(1), Share(2)), RAdd(Share(3), Share(4))),
                           WeightOf(1) + WeightOf(2) + WeightOf(3) + WeightOf(4))

\* intelligence and benchmark bias are None, price is 0.7 and speed 2.0: the
\* overall score is (0.2 * 0.7 + 0.2 * 2.0) / 0.4 = 1.35
C22_Witness ==
    /\ ranking.done
    /\ Present = {3, 4}
    /\ population[3] = JRat(Rat(700, 1))
    /\ population[4] = JRat(Rat(2000, 1))
    /\ Get(ranking.models[1], "overall_score") = JRat(Rat(1350, 1))

\* the token sets of the source slug, of the trailing segment of the
\* candidate id and of the candidate name
SourceSet == SetOf(_split_tokens(population[1]))
IdSet == SetOf(_split_tokens(_split_base_model_id(population[2])))
NameSet == SetOf(_split_tokens(population[3]))
MissingFrom(candidate_set) == Cardinality(SourceSet \ candidate_set)

\* the coverage of one candidate token set as the specification states it
StatedCoverage(candidate_set) ==
    IF SourceSet \subseteq candidate_set /\ Cardinality(candidate_set) = Cardinality(SourceSet)
    THEN 4
    ELSE -(1 + MissingFrom(candidate_set))

\* C23 as the specification states it: the coverage term is +4 when the
\* candidate token set contains every source token and has the size of the
\* source token set, and -(1 + number of missing source tokens) in every
\* other case (the better of the id and the name of the candidate).
C23_AsStated ==
    matching.op = "_coverage_reward_or_penalty"
    => matching.result = Max2(StatedCoverage(IdSet), StatedCoverage(NameSet))

\* the coverage of one candidate token set with the two cases of value 0
CoverageWithZero(candidate_set) ==
    IF SourceSet = {} THEN 0
    ELSE IF MissingFrom(candidate_set) > 0 THEN -(1 + MissingFrom(candidate_set))
    ELSE IF Cardinality(candidate_set) = Cardinality(SourceSet) THEN 4
    ELSE 0

\* C23 as amended: for each of the two candidate token sets (id trailing
\* segment, name) the coverage is 0 when the source has no token,
\* -(1 + missing) when a source token is missing, +4 when none is missing
\* and the sizes agree, 0 when none is missing and the candidate has more
\* tokens; the term is the larger of the two.
C23_Coverage ==
    matching.op = "_coverage_reward_or_penalty"
    => matching.result = Max2(CoverageWithZero(IdSet), CoverageWithZero(NameSet))

\* gpt-5-mini against a candidate whose id and name hold more tokens than the
\* slug and miss none: the term is 0
C23_Witness ==
    /\ matching.op = "_coverage_reward_or_penalty"
    /\ SourceSet # {}
    /\ MissingFrom(IdSet) = 0 /\ Cardinality(IdSet) > Cardinality(SourceSet)
    /\ MissingFrom(NameSet) > 0
    /\ matching.result = 0

\* the tokens of the source slug, its last token that is not numeric (<<>>
\* when it has none), and the last tokens of the candidate
SourceTokens == _split_tokens(population[1])
LastNonNumeric ==
    LET places == {i \in 1..Len(SourceTokens) : ~_is_numeric_token(SourceTokens[i])}
    IN IF places = {} THEN <<>>
       ELSE SourceTokens[CHOOSE i \in places : \A j \in places : j <= i]
CandidateLast ==
    {LastToken(_split_tokens(_split_base_model_id(population[2]))),
     LastToken(_split_tokens(population[3]))} \ {<<>>}

\* C24 as the specification states it: the variant term is 2 when the last
\* non-numeric token of the source slug equals the last token of the
\* candidate id's trailing segment or of its name, and 0 otherwise.
C24_AsStated ==
    matching.op = "_same_variant_reward"
    => matching.result = IF LastNonNumeric \in CandidateLast THEN 2 ELSE 0

\* C24 as amended: the variant term is 2 when the last token of the source
\* slug is not numeric and equals the last token of the candidate id's
\* trailing segment or of its name, and 0 otherwise: a slug without tokens
\* or ending in a numeric token has variant term 0.
C24_LastToken ==
    matching.op = "_same_variant_reward"
    => matching.result =
          IF /\ SourceTokens # <<>>
             /\ ~_is_numeric_token(LastToken(SourceTokens))
             /\ LastToken(SourceTokens) \in CandidateLast
          THEN 2 ELSE 0

\* claude-sonnet-4 against claude-4-sonnet: the last non-numeric token of
\* the slug is the last token of the candidate, and the term is 0
C24_Witness ==
    /\ matching.op = "_same_variant_reward"
    /\ SourceTokens # <<>>
    /\ _is_numeric_token(LastToken(SourceTokens))
    /\ LastNonNumeric \in CandidateLast
    /\ matching.result = 0

\* C25: what _normalize returns holds only characters of [a-z0-9/-], has no
\* two consecutive '-', neither starts nor ends with '-' or '/', and is
\* returned unchanged by a second _normalize.
C25_Normalized ==
    LET normalized == matching.result
    IN /\ matching.op \in {"_normalize", "_normalize again"}
          => /\ \A i \in 1..Len(normalized) : normalized[i] \in Lower \cup Digit \cup {"/", "-"}
             /\ \A i \in 1..(Len(normalized) - 1) :
                   ~(normalized[i] = "-" /\ normalized[i + 1] = "-")
             /\ normalized # <<>>
                   => /\ normalized[1] \notin {"-", "/"}
                      /\ normalized[Len(normalized)] \notin {"-", "/"}
       /\ matching.op = "_normalize again" => matching.result = matching.before

\* "A-!-A": stripping the '!' brings two '-' together, the result is "a-a"
\* and a second _normalize returns it
C25_Witness ==
    /\ matching.op = "_normalize again"
    /\ population = <<"A", "-", "!", "-", "A">>
    /\ matching.before = <<"a", "-", "a">>
    /\ matching.result = <<"a", "-", "a">>

\* get_aa_stats was called with a key and a TTL it can read; force-refresh
\* is on; the TTL in force; the age of the cache the call found (JNull when
\* the file could not be read or parsed)
AaCalled ==
    /\ call.op = "get_aa_stats"
    /\ ~IsNull(environ.ARTIFICIALANALYSIS_API_KEY)
    /\ IsNull(environ.AA_CACHE_TTL_SECONDS) \/ JEq(environ.AA_CACHE_TTL_SECONDS, JStr(<<"6","0">>))
ForceRefresh == JEq(environ.AA_REFRESH, JStr(<<"1">>))
TtlInForce == IF IsNull(environ.AA_CACHE_TTL_SECONDS) THEN 12 * 60 * 60 ELSE 60
FoundAge == AgeSeconds(call.file_before, now)

\* the cache file holds what the GET number i of the call returned
OverwrittenWith(i) ==
    /\ cache_file.kind = "json"
    /\ JEq(cache_file.value.v["fetched_at_epoch_seconds"], JInt(now))
    /\ cache_file.value.v["models"].v =
          _fetch_models(environ.ARTIFICIALANALYSIS_API_KEY, AaResponses[i], now).models

\* C26 as the specification states it, for a call with a key: force-refresh
\* off and a readable cache of age <= TTL: no GET, cache file unchanged;
\* force-refresh off and an age above the TTL or an unreadable cache: exactly
\* one GET, and the cache file holds its result when it succeeded;
\* force-refresh on: a GET is sent whatever the cache.
C26_AsStated ==
    AaCalled
    => /\ (~ForceRefresh /\ ~IsNull(FoundAge) /\ FoundAge.v <= TtlInForce)
             => call.requests_a = 0 /\ cache_file = call.file_before
       /\ (~ForceRefresh /\ (IsNull(FoundAge) \/ FoundAge.v > TtlInForce))
             => /\ call.requests_a = 1
                /\ HttpOk(AaResponses[call.response_a]) => OverwrittenWith(call.response_a)
       /\ ForceRefresh => call.requests_a >= 1

\* force-refresh off, a cache a second older than 12 hours, the provider
\* answers 500 to the first GET: get_aa_stats sends a second GET
C26_Witness ==
    /\ AaCalled
    /\ ~ForceRefresh
    /\ ~IsNull(FoundAge) /\ FoundAge.v = 12 * 60 * 60 + 1
    /\ AaResponses[call.response_a].code = 500
    /\ call.requests_a = 2
    /\ HttpOk(AaResponses[call.response_b])
    /\ OverwrittenWith(call.response_b)

\* the call found a selection cache with an empty list of models and an
\* integer timestamp: only an earlier list-mode call writes such a file
FoundEmptyList ==
    /\ WellFormedCache(call.file_before)
    /\ CachedStamp(call.file_before).t = "int"
    /\ CachedList(call.file_before) = <<>>

\* C27: a list-mode call that recomputes while a provider fetch fails
\* returns an empty list stamped with the current time and writes it to the
\* selection cache; a list-mode call that finds such a cache at most 24h
\* after its timestamp returns the empty list with that timestamp and sends
\* no request, whatever the providers would answer.
C27_EmptyListServed ==
    /\ (ListMode /\ ProviderFetchFailed)
          => /\ Len(call.result.models) = 0
             /\ Same(call.result.fetched_at_epoch_seconds, JInt(now))
             /\ call.written = call.result
             /\ call.write = "ok" => SameFile(cache_file, CacheOf(JInt(now), <<>>))
    /\ (/\ ListMode
        /\ FoundEmptyList
        /\ 0 <= now - CachedStamp(call.file_before).v
        /\ now - CachedStamp(call.file_before).v <= 24 * 60 * 60)
          => /\ Len(call.result.models) = 0
             /\ Same(call.result.fetched_at_epoch_seconds, CachedStamp(call.file_before))
             /\ NothingButRead

\* 24h after an empty list was cached, a list-mode call with a key in the
\* environment returns it and sends no request
C27_Witness ==
    /\ ListMode
    /\ FoundEmptyList
    /\ CachedStamp(call.file_before).v = Times[1]
    /\ now = Times[1] + 24 * 60 * 60
    /\ RequestsWithEnvironKey = 1
    /\ Len(call.result.models) = 0
    /\ Same(call.result.fetched_at_epoch_seconds, JInt(Times[1]))
    /\ NothingButRead

\* C28: a selection cache whose timestamp is later than the current time
\* (negative age) is stale: a list-mode call does not return it, asks the
\* providers, returns the recomputed models stamped with the current time
\* and overwrites the cache with that payload.
C28_FutureCacheStale ==
    (/\ ListMode
     /\ WellFormedCache(call.file_before)
     /\ now - WholeSeconds(CachedStamp(call.file_before)) < 0)
    => /\ call.requests_a = RequestsWithEnvironKey
       /\ call.requests_b = 1
       /\ Same(call.result.fetched_at_epoch_seconds, JInt(now))
       /\ SameList(call.result.models, FreshModels)
       /\ call.write \in WriteOutcomes
       /\ Same(call.written.fetched_at_epoch_seconds, JInt(now))
       /\ SameList(call.written.models, call.result.models)
       /\ call.write = "ok" => SameFile(cache_file, CacheOf(JInt(now), call.result.models))

\* the clock was set back by 24h and a second after a list-mode call had
\* written an empty list: the next list-mode call recomputes a model and
\* overwrites the cache
C28_Witness ==
    /\ ListMode
    /\ FoundEmptyList
    /\ CachedStamp(call.file_before).v = now + 24 * 60 * 60 + 1
    /\ call.requests_b = 1
    /\ call.result.models # <<>>
    /\ call.write = "ok"
    /\ SameFile(cache_file, CacheOf(JInt(now), call.result.models))

\* the source models whose best match has the highest score before the void
\* pass
AtHighest == {i \in WithBestMatch : BestScore(matching.before[i]) = HighestBest}

\* the source model number i has kept its best match: in the mapping view
\* its entry has one, in the union view its row is there
KeptBestMatch(i) ==
    IF MappingDone THEN ~IsNull(Get(matching.result.models[i], "best_match"))
    ELSE \E k \in 1..Len(matching.result.models) :
            Same(Get(matching.before[i], "union"), matching.result.models[k])

\* C29: when a source model has a best match before the void pass, the pass
\* does not clear every match: each model whose best-match score is the
\* highest keeps its best match, and when all the best-match scores are
\* equal (a single matched model included) voided_count is 0.
C29_NeverAllVoided ==
    (Matched /\ WithBestMatch # {})
    => /\ \A i \in AtHighest : KeptBestMatch(i)
       /\ matching.result.voided_count < Cardinality(WithBestMatch)
       /\ LowestBest = HighestBest => matching.result.voided_count = 0

\* three source models have a best match, the pass clears two of them and
\* the one of the highest score keeps its match
C29_Witness ==
    /\ MappingDone
    /\ Cardinality(WithBestMatch) = 3
    /\ matching.result.voided_count = 2
    /\ Cardinality(AtHighest) = 1
    /\ \A i \in AtHighest : ~IsNull(Get(matching.result.models[i], "best_match"))

\* the entries of a mapping payload that have a best match, in their order
KeptIn(mapping) ==
    SelectSeq([i \in 1..Len(mapping.models) |-> i],
              LAMBDA i : ~IsNull(Get(mapping.models[i], "best_match")))

\* a mapping payload and a union payload built from the source models agree
ViewsAgree(mapping, union) ==
    /\ Len(mapping.models) = Len(population)
    /\ \A i \in 1..Len(population) :
          /\ Get(mapping.models[i], "artificial_analysis_slug").v = SlugOf(population[i])
          /\ IsNull(Get(mapping.models[i], "best_match"))
                => Get(mapping.models[i], "candidates").v = <<>>
    /\ Same(mapping.void_threshold, union.void_threshold)
    /\ mapping.voided_count = union.voided_count
    /\ Len(union.models) = Len(KeptIn(mapping))
    /\ \A k \in 1..Len(union.models) :
          JEq(Get(union.models[k], "slug"), Get(population[KeptIn(mapping)[k]], "slug"))

\* the two views of the data the matcher was run on
UnionView == BuildUnion(StatsOf(population), StatsOf(matching.listing))
MappingView(max_candidates) ==
    BuildMapping(StatsOf(population), StatsOf(matching.listing), max_candidates)

\* C30: on the same data and with max_candidates >= 1 the mapping view has
\* one entry per source model in source order (the unmatched and the voided
\* ones with best_match null and no candidates), reports the void_threshold
\* and the voided_count of the union view, and the source models with a best
\* match in it are exactly those with a row in the union view.
C30_ViewsAgree ==
    /\ (MappingDone /\ CapAsked >= 1) => ViewsAgree(matching.result, UnionView)
    /\ UnionDone => ViewsAgree(MappingView(5), matching.result)

\* the mapping was asked for with max_candidates = 1 on three source models:
\* one without candidates, one voided and one that keeps its match and is
\* the only row of the union
C30_Witness ==
    /\ MappingDone
    /\ CapAsked = 1
    /\ Len(population) = 3
    /\ Cardinality(WithBestMatch) = 2
    /\ matching.result.voided_count = 1
    /\ Len(KeptIn(matching.result)) = 1
    /\ Len(UnionView.models) = 1

====
